---- MODULE Spec2Model ----
(***************************************************************************)
(* Model of gurgler's prefix-based (v2) tooling, src/bin/v2.mjs and        *)
(* src/bin/utils.mjs: configure (configureCmd), deploy (deployCmd), the    *)
(* release flow (releaseCmd) and the delete-old-deploys sweep (cleanupCmd) *)
(* over the local build manifest, an object store (S3), a parameter store  *)
(* (SSM) and a remote activation function (Lambda).                        *)
(*                                                                         *)
(* JavaScript strings are sequences of one-character strings, so that      *)
(* prefix matching, splitting and path parsing are computed, not assumed.  *)
(* Times are in seconds (the code uses milliseconds).                      *)
(***************************************************************************)
EXTENDS Integers, Sequences, FiniteSets, Bags, TLC

----------------------------------------------------------------------------
(* Strings *)

\* The characters the model uses, in code-point order (S3 lists keys in
\* UTF-8 binary order).
Ascii == <<".", "/", "0", "1", "2", "3", "4", "5", "6", "7", "8", "9",
           "a", "b", "c", "d", "e", "f", "g", "h", "i", "j", "k", "l", "m",
           "n", "o", "p", "q", "r", "s", "t", "u", "v", "w", "x", "y", "z",
           "|">>

Code(c) == CHOOSE i \in DOMAIN Ascii : Ascii[i] = c

Rep(c, n) == [i \in 1..n |-> c]

\* s < t in code-point order.
RECURSIVE StrLess(_, _)
StrLess(s, t) ==
  IF t = <<>> THEN FALSE
  ELSE IF s = <<>> THEN TRUE
  ELSE IF Head(s) = Head(t) THEN StrLess(Tail(s), Tail(t))
  ELSE Code(Head(s)) < Code(Head(t))

\* lodash _.startsWith(s, target) / String.prototype.startsWith
StartsWith(s, target) ==
  /\ Len(target) <= Len(s)
  /\ SubSeq(s, 1, Len(target)) = target

\* String.prototype.substring(0, n)
Substring0(s, n) == SubSeq(s, 1, IF n < Len(s) THEN n ELSE Len(s))

\* First index at which pat occurs in s, 0 when it does not.
IndexOf(s, pat) ==
  LET hits == {i \in 1..(Len(s) - Len(pat) + 1) :
                 SubSeq(s, i, i + Len(pat) - 1) = pat}
  IN IF hits = {} THEN 0 ELSE CHOOSE i \in hits : \A j \in hits : i <= j

\* Last index at which the character c occurs in s, 0 when it does not.
LastIndexOfChar(s, c) ==
  LET hits == {i \in 1..Len(s) : s[i] = c}
  IN IF hits = {} THEN 0 ELSE CHOOSE i \in hits : \A j \in hits : j <= i

\* String.prototype.split(sep): the pieces of s between occurrences of sep.
RECURSIVE Split(_, _)
Split(s, sep) ==
  LET i == IndexOf(s, sep)
  IN IF i = 0 THEN <<s>>
     ELSE <<SubSeq(s, 1, i - 1)>> \o Split(SubSeq(s, i + Len(sep), Len(s)), sep)

\* path.parse(p).base: what follows the last "/".
PathBase(p) == SubSeq(p, LastIndexOfChar(p, "/") + 1, Len(p))

\* path.parse(p).ext: from the last "." of the base, "" when there is none or
\* when the only "." is the base's first character.
PathExt(p) ==
  LET base == PathBase(p)
      i == LastIndexOfChar(base, ".")
  IN IF i <= 1 THEN <<>> ELSE SubSeq(base, i, Len(base))

\* makeHashDigest = hash => hash.substring(0, 7)
makeHashDigest(hash) == Substring0(hash, 7)

\* The segments of a path without the empty ones and the "." ones, each ".."
\* taking back the segment before it.
RECURSIVE ResolveSegments(_, _)
ResolveSegments(segs, acc) ==
  IF segs = <<>> THEN acc
  ELSE IF Head(segs) = <<>> \/ Head(segs) = <<".">>
    THEN ResolveSegments(Tail(segs), acc)
  ELSE IF Head(segs) = <<".", ".">> /\ acc # <<>> /\ acc[Len(acc)] # <<".", ".">>
    THEN ResolveSegments(Tail(segs), SubSeq(acc, 1, Len(acc) - 1))
  ELSE ResolveSegments(Tail(segs), Append(acc, Head(segs)))

RECURSIVE JoinSegments(_)
JoinSegments(segs) ==
  IF segs = <<>> THEN <<>>
  ELSE IF Len(segs) = 1 THEN segs[1]
  ELSE segs[1] \o <<"/">> \o JoinSegments(Tail(segs))

\* path.normalize of a non-empty POSIX path that does not end with "/".
PathNormalize(p) ==
  (IF p[1] = "/" THEN <<"/">> ELSE <<>>)
    \o JoinSegments(ResolveSegments(Split(p, <<"/">>), <<>>))

\* pathJoin that only puts "/" between its arguments.
pathJoinConcat(a, b) == a \o <<"/">> \o b

\* path.join(a, b): the arguments joined with "/" and the result normalized.
pathJoin(a, b) == PathNormalize(a \o <<"/">> \o b)

----------------------------------------------------------------------------
(* Configuration (package.json "gurgler" key, src/README.md) *)

\* bucketPath "p"
bucketPath == <<"p">>

\* The configured environments, in configuration order.
environmentsConfig ==
  << [key |-> "dev", ssmKey |-> "/dev/asset-checksum",
      serverEnvironment |-> "development", masterOnly |-> FALSE,
      slackChannel |-> ""],
     [key |-> "production", ssmKey |-> "/production/asset-checksum",
      serverEnvironment |-> "production", masterOnly |-> TRUE,
      slackChannel |-> "#deployments"] >>

EnvIdx == DOMAIN environmentsConfig

SsmKeys == {environmentsConfig[i].ssmKey : i \in EnvIdx}

\* bucketNames: server environment -> bucket
bucketNames ==
  [s \in {"development", "production"} |->
     IF s = "development" THEN "development-bucket" ELSE "production-bucket"]

\* lambdaFunctions: server environment -> activation function
lambdaFunctions ==
  [s \in {"development", "production"} |->
     IF s = "development" THEN "release-dev" ELSE "release-prod"]

Buckets == {bucketNames[s] : s \in DOMAIN bucketNames}

\* const serverEnvironments = [...new Set(environments.map(e => e.serverEnvironment))]
serverEnvironments ==
  {environmentsConfig[i].serverEnvironment : i \in EnvIdx}

----------------------------------------------------------------------------
(* Builds: what configure and deploy leave in a bucket *)

GurglerJson == <<"g", "u", "r", "g", "l", "e", "r", ".", "j", "s", "o", "n">>
ManifestSuffix == <<".">> \o GurglerJson
Master == <<"m", "a", "s", "t", "e", "r">>
Dev == <<"d", "e", "v">>

CommitA == Rep("a", 7) \o <<"1">>
CommitB == Rep("a", 7) \o <<"2">>
CommitC == Rep("c", 7) \o <<"3">>

\* The raw identity without the separator.
RawIdentityUnseparated(commit, branch) == commit \o branch

\* const raw = `${commit}|${branch}`
RawIdentity(commit, branch) == commit \o <<"|">> \o branch

\* The characters of a string, each as the two hex digits of its code.
RECURSIVE HexOfCodes(_)
HexOfCodes(raw) ==
  IF raw = <<>> THEN <<>>
  ELSE <<Ascii[(Code(Head(raw)) \div 16) + 3], Ascii[(Code(Head(raw)) % 16) + 3]>>
         \o HexOfCodes(Tail(raw))

\* createHash("sha256").update(raw).digest("hex"): a digest cannot be computed
\* here; it is an injective map of the raw identities: a table of eight hex
\* characters for the builds of the model, the hex codes of the characters
\* for any other string.
\* How many further builds a crowded bucket holds.
FillerCount == 20

\* Two decimal digits of i.
TwoDigits(i) == <<Ascii[(i \div 10) + 3], Ascii[(i % 10) + 3]>>

\* The commit of the i-th further build.
FillerCommit(i) == Rep("b", 6) \o TwoDigits(i)

Sha256Hex(raw) ==
  CASE raw = RawIdentity(CommitA, Master) -> Rep("d", 7) \o <<"1">>
    [] raw = RawIdentity(CommitB, Dev)    -> Rep("e", 7) \o <<"2">>
    [] raw = RawIdentity(CommitC, Master) -> Rep("f", 7) \o <<"3">>
    [] \E i \in 1..(FillerCount + 1) : raw = RawIdentity(FillerCommit(i), Master)
         -> Rep("9", 6) \o TwoDigits(CHOOSE i \in 1..(FillerCount + 1) :
                                       raw = RawIdentity(FillerCommit(i), Master))
    [] OTHER                              -> HexOfCodes(raw)

\* configureCmd: the build manifest of (commit, branch).
configureCmd(path, commit, branch) ==
  LET raw == RawIdentity(commit, branch)
      hashed == Sha256Hex(raw)
  IN [commit |-> commit, branch |-> branch, raw |-> raw, hash |-> hashed,
      prefix |-> path \o <<"/">> \o hashed]

\* The build manifest of (commit, branch) under the configured bucketPath.
ConfigureManifest(commit, branch) == configureCmd(bucketPath, commit, branch)

BuildA == ConfigureManifest(CommitA, Master)
BuildB == ConfigureManifest(CommitB, Dev)
BuildC == ConfigureManifest(CommitC, Master)
Filler(i) == ConfigureManifest(FillerCommit(i), Master)

\* readFileAndDeploy: the remote key of a local file.
RemoteFilePath(prefix, base) ==
  IF base = GurglerJson
    THEN prefix \o <<".">> \o base
    ELSE pathJoin(prefix, base)

FileA == <<"a", ".", "j", "s">>
FileB == <<"b", ".", "c", "s", "s">>

\* The objects a deploy of manifest m with the given asset files puts in a
\* bucket at time t; gitInfo is the git-info tag ("" when the tag is absent).
DeployedObjects(m, files, t, gitInfo) ==
  {[Key |-> RemoteFilePath(m.prefix, f), LastModified |-> t,
    GitInfo |-> gitInfo] : f \in files \cup {GurglerJson}}

----------------------------------------------------------------------------
(* The object store *)

\* Keys one ListObjectsV2 response carries at most (S3: 1000).
PageSize == 2

RECURSIVE SortKeys(_)
SortKeys(S) ==
  IF S = {} THEN <<>>
  ELSE LET m == CHOOSE x \in S : \A y \in S \ {x} : StrLess(x, y)
       IN <<m>> \o SortKeys(S \ {m})

\* The part of a key up to and including the first delimiter after the prefix.
CommonPrefix(key, prefix, start) == SubSeq(key, 1, Len(prefix) + start)

\* The listing entry a key falls under: the key itself, or, with a delimiter,
\* the common prefix that ends at the first delimiter after the prefix.
ListEntry(key, prefix, delimiter) ==
  IF delimiter = <<>> \/ IndexOf(SubSeq(key, Len(prefix) + 1, Len(key)), delimiter) = 0
    THEN key
    ELSE CommonPrefix(key, prefix,
                      IndexOf(SubSeq(key, Len(prefix) + 1, Len(key)), delimiter)
                        + Len(delimiter) - 1)

\* ListEntries over every key of the bucket, whatever the prefix.
ListEntriesAnyPrefix(objs, prefix, delimiter, token) ==
  {k \in {ListEntry(o.Key, prefix, delimiter) : o \in objs} :
     token = <<>> \/ StrLess(token, k)}

\* The entries of a listing that follow the continuation token.
ListEntries(objs, prefix, delimiter, token) ==
  {k \in {ListEntry(o.Key, prefix, delimiter) :
            o \in {x \in objs : StartsWith(x.Key, prefix)}} :
     token = <<>> \/ StrLess(token, k)}

ObjectsOfKeys(objs, keys) ==
  [i \in DOMAIN keys |-> CHOOSE o \in objs : o.Key = keys[i]]

\* The objects named by the keys of a page; a common prefix names none.
PageContents(objs, page) ==
  ObjectsOfKeys(objs, SelectSeq(page, LAMBDA k : \E o \in objs : o.Key = k))

ListPage(objs, sorted, n) ==
  [Contents |-> PageContents(objs, SubSeq(sorted, 1, n)),
   IsTruncated |-> Len(sorted) > n,
   NextContinuationToken |-> IF n = 0 THEN <<>> ELSE sorted[n]]

ListSorted(objs, sorted) ==
  ListPage(objs, sorted, IF Len(sorted) < PageSize THEN Len(sorted) ELSE PageSize)

\* One ListObjectsV2 response over the objects objs of a bucket. Contents and
\* common prefixes both count towards the page. The response has no Contents
\* member when the page holds no object: Contents is then <<>> here.
ListObjectsV2(objs, prefix, delimiter, token) ==
  ListSorted(objs, SortKeys(ListEntries(objs, prefix, delimiter, token)))

\* DeleteObjects: the bucket without the named keys.
DeleteObjects(objs, keys) == {o \in objs : o.Key \notin keys}

----------------------------------------------------------------------------
(* The catalog: getDeployedVersionList, formatAndLimitDeployedVersions,    *)
(* addGitSha, addGitInfo                                                    *)

SecondPieceIsGurgler(split) ==
  /\ Len(split) >= 2
  /\ split[2] = <<"g", "u", "r", "g", "l", "e", "r">>

\* ext === ".json" && base.split(".")[1] === "gurgler"
IsGurglerManifest(key) ==
  /\ PathExt(key) = <<".", "j", "s", "o", "n">>
  /\ SecondPieceIsGurgler(Split(PathBase(key), <<".">>))

\* base.split(".")[0]
HashOfKey(key) == Split(PathBase(key), <<".">>)[1]

\* allVersions.concat(response.Contents). threw: a response had no Contents,
\* so that the list holds an undefined element and the filter's
\* parse(version.Key) throws.
ConcatPage(response, more) ==
  [threw |-> response.Contents = <<>> \/ more.threw,
   items |-> response.Contents \o more.items]

\* The loop of getDeployedVersionList over the pages of the listing.
RECURSIVE ListAllPages(_, _, _, _)
NextPages(objs, prefix, delimiter, response) ==
  ConcatPage(response,
             IF response.IsTruncated
               THEN ListAllPages(objs, prefix, delimiter,
                                 response.NextContinuationToken)
               ELSE [threw |-> FALSE, items |-> <<>>])

ListAllPages(objs, prefix, delimiter, token) ==
  NextPages(objs, prefix, delimiter, ListObjectsV2(objs, prefix, delimiter, token))

\* The record getDeployedVersionList makes of a manifest object.
VersionOfObject(o, bucketName) ==
  [filepath |-> o.Key,
   directoryPath |-> Split(o.Key, ManifestSuffix)[1],
   lastModified |-> o.LastModified,
   bucket |-> bucketName]

VersionsOfObjects(manifests, bucketName) ==
  [i \in DOMAIN manifests |-> VersionOfObject(manifests[i], bucketName)]

\* The filter and the map that end getDeployedVersionList.
ManifestVersions(all, bucketName) ==
  [threw |-> all.threw,
   versions |-> VersionsOfObjects(
                  SelectSeq(all.items, LAMBDA o : IsGurglerManifest(o.Key)),
                  bucketName)]

getDeployedVersionList(objs, bucketName, path) ==
  ManifestVersions(ListAllPages(objs, path \o <<"/">>, <<"/">>, <<>>), bucketName)

\* x placed after the elements of the sorted list that are not later than it.
InsertByLastModified(front, x) ==
  SelectSeq(front, LAMBDA v : v.lastModified <= x.lastModified)
    \o <<x>>
    \o SelectSeq(front, LAMBDA v : v.lastModified > x.lastModified)

\* _.sortBy(versions, ["lastModified"]): ascending and stable.
RECURSIVE SortByLastModified(_)
SortByLastModified(vs) ==
  IF vs = <<>> THEN <<>>
  ELSE InsertByLastModified(SortByLastModified(SubSeq(vs, 1, Len(vs) - 1)),
                            vs[Len(vs)])

\* Reverse that leaves the order as it is.
ReverseNot(s) == s

\* _.reverse
Reverse(s) == [i \in 1..Len(s) |-> s[Len(s) + 1 - i]]

\* slice without the limit: the whole array.
SliceAll(s, size) == s

\* Array.prototype.slice(0, size)
Slice0(s, size) == SubSeq(s, 1, IF size < Len(s) THEN size ELSE Len(s))

\* Only show last 20 versions
DisplayLimit == 20

\* version.hash = split[0]; version.hashDigest = makeHashDigest(version.hash)
WithHash(v, hash) ==
  [filepath |-> v.filepath,
   directoryPath |-> v.directoryPath,
   lastModified |-> v.lastModified,
   bucket |-> v.bucket,
   hash |-> hash,
   hashDigest |-> makeHashDigest(hash)]

AllWithHash(kept) ==
  [i \in DOMAIN kept |-> WithHash(kept[i], HashOfKey(kept[i].filepath))]

\* The manifests of a list, each with its hash.
ManifestsWithHash(vs) ==
  AllWithHash(SelectSeq(vs, LAMBDA v : IsGurglerManifest(v.filepath)))

formatAndLimitDeployedVersions(vs, size) ==
  ManifestsWithHash(Slice0(Reverse(SortByLastModified(vs)), size))

\* filterFilesToFindGurglerDeploys of getDeployedVersionListWithMetadata
filterFilesToFindGurglerDeploys(vs) == ManifestsWithHash(vs)

\* The version with the fields addGitSha sets from the git-info tag split on
\* "|". hasGitSha is FALSE when the tag is "" or undefined: gitSha,
\* gitShaDigest and gitBranch then stay undefined.
WithGitSha(v, has, parsedMetaData) ==
  [filepath |-> v.filepath,
   directoryPath |-> v.directoryPath,
   lastModified |-> v.lastModified,
   bucket |-> v.bucket,
   hash |-> v.hash,
   hashDigest |-> v.hashDigest,
   hasGitSha |-> has,
   gitSha |-> IF has THEN parsedMetaData[1] ELSE <<>>,
   gitShaDigest |-> IF has THEN makeHashDigest(parsedMetaData[1]) ELSE <<>>,
   hasGitBranch |-> has /\ Len(parsedMetaData) >= 2,
   gitBranch |-> IF has /\ Len(parsedMetaData) >= 2 THEN parsedMetaData[2] ELSE <<>>]

\* response.Metadata["git-info"] of the HeadObject of a key
HeadGitInfo(objs, key) == (CHOOSE o \in objs : o.Key = key).GitInfo

ParseGitInfo(v, metaData) ==
  WithGitSha(v, metaData # <<>>, Split(metaData, <<"|">>))

addGitSha(v, objs) == ParseGitInfo(v, HeadGitInfo(objs, v.filepath))

\* Promise.all(versions.map((version) => addGitSha(version)))
addGitShaAll(vs, objs) == [i \in DOMAIN vs |-> addGitSha(vs[i], objs)]

\* addGitInfo throws a TypeError for a version without gitSha:
\* makeHashDigest(gitSha) is undefined.substring(0, 7).
addGitInfoThrows(v) == ~v.hasGitSha

\* The revisions the local repository knows: the history that held commit
\* aaaaaaa2 was rewritten.
gitLog == {CommitA, CommitC}

\* getGitInfo(gitSha): the members are "????" when a git command is
\* rejected, as for a revision the repository does not know.
getGitInfo(gitSha) ==
  IF gitSha \in gitLog
    THEN [author |-> "author", date |-> "date", message |-> "message"]
    ELSE [author |-> "????", date |-> "????", message |-> "????"]

\* addGitInfo(version, packageName): the display name made of what
\* getGitInfo returned, the build hash and the revision, unless
\* makeHashDigest(gitSha) throws.
addGitInfo(v) ==
  [threw |-> addGitInfoThrows(v),
   displayName |-> [date |-> getGitInfo(v.gitSha).date,
                    hash |-> makeHashDigest(v.hash),
                    author |-> getGitInfo(v.gitSha).author,
                    message |-> getGitInfo(v.gitSha).message]]

\* The outcome of a chain that lists and then enriches: threw when the
\* listing threw or addGitInfo threw for some version.
Enriched(listingThrew, vs) ==
  [threw |-> listingThrew \/ \E i \in DOMAIN vs : addGitInfoThrows(vs[i]),
   versions |-> IF listingThrew THEN <<>> ELSE vs]

----------------------------------------------------------------------------
(* State *)

VARIABLES
  s3,             \* bucket -> the set of its objects
  ssm,            \* parameter name -> value ("" when the parameter does not exist)
  cmdObj,         \* the options of the release command: environment, commit
  rpc,            \* where the release command is
  renvs,          \* release: environment index -> releasedHash fetched
  environment,    \* release: index of the chosen environment, 0 before
  versions,       \* release: the enriched list the artifact is chosen from
  version,        \* release: the chosen artifact (<<>> before), as a 0/1-element list
  prompts,        \* release: the prompts issued so far, oldest first
  answered,       \* release: the answers given to the confirmation prompts
  output,         \* release: what was logged, oldest first
  exitCode,       \* release: -1 while running, then the exit status
  invocations,    \* payloads of the activation function's invocations
  notifications,  \* chat notifications sent
  now,            \* cleanup: invocation time
  cpc,            \* cleanup: "start", "scanPrompt", "sweeping"
  scan,           \* cleanup: server environment -> answer to its scan prompt
  cenvs,          \* cleanup: environment index -> releasedHash (shared by the sweeps)
  sweep,          \* cleanup: server environment -> state of its sweep
  deleteCalls,    \* DeleteObjects calls issued: server environment, bucket, keys
  peer,           \* a second operator's release: its place, environment, artifact
  started,        \* how many further invocations of each command were started
  deploy,         \* deploy: the manifest read, the uploads done so far
  fn,             \* a catalog function applied on its own: input and result
  gurglerJson,    \* the local build manifest: <<>> when the file does not exist
  lookups         \* the enrichment lookups of a catalog that run side by side

relVars == <<cmdObj, rpc, renvs, environment, versions, version, prompts,
             answered, output, exitCode, invocations, notifications>>
cleanVars == <<now, cpc, scan, cenvs, sweep, deleteCalls>>
auxVars == <<peer, started, deploy, fn, gurglerJson, lookups>>
vars == <<s3, ssm, relVars, cleanVars, auxVars>>

\* requestCurrentlyReleasedVersions: threw when the response holds no
\* parameter for some environment (param is undefined and is destructured).
requestCurrentlyReleasedVersions(params) ==
  [threw |-> \E i \in EnvIdx : params[environmentsConfig[i].ssmKey] = <<>>,
   releasedHash |-> [i \in EnvIdx |-> params[environmentsConfig[i].ssmKey]]]

----------------------------------------------------------------------------
(* releaseCmd *)

\* The release command ends: process.exit(code), or the end of the chain.
Exit(code, message) ==
  /\ rpc' = "done"
  /\ exitCode' = code
  /\ output' = Append(output, message)

\* .catch((err) => console.error(err)) of releaseCmd: logged, normal exit.
Caught(err) == Exit(0, err)

RequestReleased ==
  /\ rpc = "start"
  /\ LET r == requestCurrentlyReleasedVersions(ssm)
     IN IF r.threw
          THEN /\ Caught("TypeError")
               /\ UNCHANGED renvs
          ELSE /\ renvs' = r.releasedHash
               /\ rpc' = "determineEnvironment"
               /\ UNCHANGED <<output, exitCode>>
  /\ UNCHANGED <<s3, ssm, cmdObj, environment, versions, version, prompts,
                 answered, invocations, notifications, cleanVars, auxVars>>

\* join is path.join (import { join, parse } from "path"): it throws a
\* TypeError unless every argument is a string.
pathJoinThrows(argTypes) == \E i \in DOMAIN argTypes : argTypes[i] # "string"

\* _.find(environments, (e) => e.key === cmdObj.environment): index or 0.
findEnvironment(key) ==
  LET hits == {i \in EnvIdx : environmentsConfig[i].key = key}
  IN IF hits = {} THEN 0 ELSE CHOOSE i \in hits : \A j \in hits : i <= j

\* promptsEnvironment ignoring --environment.
promptsEnvironmentAlways(cmd) == TRUE

\* _.isEmpty(cmdObj.environment): the environment is asked for.
promptsEnvironment(cmd) == cmd.environment = ""

DetermineEnvironment ==
  /\ rpc = "determineEnvironment"
  /\ IF promptsEnvironment(cmdObj)
       THEN /\ prompts' = Append(prompts, "environment")
            /\ rpc' = "environmentPrompt"
            /\ UNCHANGED <<environment, output, exitCode>>
       ELSE IF findEnvironment(cmdObj.environment) = 0
         THEN /\ IF pathJoinThrows(<<"array", "string">>)
                   THEN Caught("TypeError")
                   ELSE Exit(1, "UnknownEnvironment")
              /\ UNCHANGED <<environment, prompts>>
         ELSE /\ environment' = findEnvironment(cmdObj.environment)
              /\ rpc' = "determineVersionToRelease"
              /\ UNCHANGED <<prompts, output, exitCode>>
  /\ UNCHANGED <<s3, ssm, cmdObj, renvs, versions, version, answered,
                 invocations, notifications, cleanVars, auxVars>>

AnswerEnvironment ==
  /\ rpc = "environmentPrompt"
  /\ \E i \in EnvIdx : environment' = i
  /\ rpc' = "determineVersionToRelease"
  /\ UNCHANGED <<s3, ssm, cmdObj, renvs, versions, version, prompts, answered,
                 output, exitCode, invocations, notifications, cleanVars, auxVars>>

\* The last hit of the list instead of the first.
LastOf(vs, hits) ==
  IF hits = {} THEN <<>> ELSE <<vs[CHOOSE i \in hits : \A j \in hits : i >= j]>>

\* _.find(versions, (version) => _.startsWith(version.gitSha, cmdObj.commit))
FirstOf(vs, hits) ==
  IF hits = {} THEN <<>> ELSE <<vs[CHOOSE i \in hits : \A j \in hits : i <= j]>>

\* findVersion matching the build hash instead of the revision id.
findVersionByHash(vs, commit) ==
  FirstOf(vs, {i \in DOMAIN vs : StartsWith(vs[i].hash, commit)})

findVersion(vs, commit) ==
  FirstOf(vs, {i \in DOMAIN vs : StartsWith(vs[i].gitSha, commit)})

\* The minimum length of a --commit
MinCommitLength == 7

\* tooShort with the length check left out.
tooShortNever(commit) == FALSE

\* cmdObj.commit.length < 7
tooShort(commit) == Len(commit) < MinCommitLength

\* The versions determineVersionToRelease considers: the 20 latest, enriched.
LimitAndEnrich(listed, objs) ==
  Enriched(listed.threw,
           addGitShaAll(formatAndLimitDeployedVersions(listed.versions, DisplayLimit),
                        objs))

consideredVersions(objs, bucketName) ==
  LimitAndEnrich(getDeployedVersionList(objs, bucketName, bucketPath), objs)

\* The last .then of determineVersionToRelease, on the enriched list.
SelectVersion(vs, found) ==
  /\ versions' = vs
  /\ IF Len(vs) = 0
       THEN /\ Exit(0, "NoDeployedVersions")
            /\ UNCHANGED <<version, prompts>>
       ELSE IF cmdObj.commit = <<>>
         THEN /\ prompts' = Append(prompts, "version")
              /\ rpc' = "versionPrompt"
              /\ UNCHANGED <<version, output, exitCode>>
       ELSE IF tooShort(cmdObj.commit)
         THEN /\ Exit(1, "IdentifierTooShort")
              /\ UNCHANGED <<version, prompts>>
       ELSE IF found = <<>>
         THEN /\ Exit(1, "NoMatchingArtifact")
              /\ UNCHANGED <<version, prompts>>
       ELSE /\ version' = found
            /\ prompts' = Append(prompts, "confirm")
            /\ rpc' = "confirmPrompt"
            /\ UNCHANGED <<output, exitCode>>

ListedAndEnriched(c) ==
  IF c.threw
    THEN /\ Caught("TypeError")
         /\ UNCHANGED <<versions, version, prompts>>
    ELSE SelectVersion(c.versions, findVersion(c.versions, cmdObj.commit))

DetermineVersionToRelease ==
  /\ rpc = "determineVersionToRelease"
  /\ IF environmentsConfig[environment].serverEnvironment \notin DOMAIN bucketNames
       THEN /\ Exit(1, "NoSuchServerEnvironment")
            /\ UNCHANGED <<versions, version, prompts>>
       ELSE ListedAndEnriched(
              consideredVersions(
                s3[bucketNames[environmentsConfig[environment].serverEnvironment]],
                bucketNames[environmentsConfig[environment].serverEnvironment]))
  /\ UNCHANGED <<s3, ssm, cmdObj, renvs, environment, answered, invocations,
                 notifications, cleanVars, auxVars>>

AnswerVersion ==
  /\ rpc = "versionPrompt"
  /\ \E i \in DOMAIN versions : version' = <<versions[i]>>
  /\ prompts' = Append(prompts, "confirm")
  /\ rpc' = "confirmPrompt"
  /\ UNCHANGED <<s3, ssm, cmdObj, renvs, environment, versions, answered,
                 output, exitCode, invocations, notifications, cleanVars, auxVars>>

\* Confirmation with every prompt defaulting to yes.
ConfirmationDefaultYes(answer, default) == answer # "no"

\* What an answer to a confirm prompt resolves to; accepting the default
\* gives the prompt's default.
Confirmation(answer, default) ==
  IF answer = "default" THEN default ELSE answer = "yes"

\* default: false of the primary confirmation of confirmRelease
PrimaryDefault == FALSE

\* The warning prompt of confirmRelease sets no default: inquirer's confirm
\* prompt then defaults to true.
WarningDefault == TRUE

\* needsWarning without the test of environment.masterOnly.
needsWarningAnyEnvironment(confirmation, env, v) ==
  /\ confirmation
  /\ (~v.hasGitBranch \/ v.gitBranch # Master)

\* confirmRelease: whether the master-only warning prompt follows the
\* primary confirmation.
needsWarning(confirmation, env, v) ==
  /\ confirmation
  /\ env.masterOnly
  /\ (~v.hasGitBranch \/ v.gitBranch # Master)

\* The last .then of releaseCmd: release(...) is called iff answers.confirmation.
Decide(confirmation) ==
  IF confirmation
    THEN /\ rpc' = "release"
         /\ UNCHANGED <<output, exitCode>>
    ELSE Exit(0, "Cancelling release...")

AnswerConfirm ==
  /\ rpc = "confirmPrompt"
  /\ \E answer \in {"yes", "no", "default"} :
       /\ answered' = Append(answered, answer)
       /\ IF needsWarning(Confirmation(answer, PrimaryDefault),
                          environmentsConfig[environment], version[1])
            THEN /\ prompts' = Append(prompts, "masterOnlyWarning")
                 /\ rpc' = "warningPrompt"
                 /\ UNCHANGED <<output, exitCode>>
            ELSE /\ Decide(Confirmation(answer, PrimaryDefault))
                 /\ UNCHANGED prompts
  /\ UNCHANGED <<s3, ssm, cmdObj, renvs, environment, versions, version,
                 invocations, notifications, cleanVars, auxVars>>

AnswerWarning ==
  /\ rpc = "warningPrompt"
  /\ \E answer \in {"yes", "no", "default"} :
       /\ answered' = Append(answered, answer)
       /\ Decide(Confirmation(answer, WarningDefault))
  /\ UNCHANGED <<s3, ssm, cmdObj, renvs, environment, versions, version,
                 prompts, invocations, notifications, cleanVars, auxVars>>

\* sendReleaseMessage: a chat notification goes out when the environment
\* has a slackChannel (slackConfig with a web hook is configured).
sendsNotification(env) == env.slackChannel # ""

\* releasePayload with the revision id as the value.
releasePayloadOfGitSha(env, v) ==
  [parameterName |-> env.ssmKey, parameterValue |-> v.gitSha]

\* Payload: JSON.stringify({parameterName: environment.ssmKey,
\*                          parameterValue: version.hash})
releasePayload(env, v) ==
  [parameterName |-> env.ssmKey, parameterValue |-> v.hash]

\* What the activation function may answer: success, a status other than
\* 200, a function-level error.
Responses ==
  { [StatusCode |-> 200, FunctionError |-> FALSE],
    [StatusCode |-> 500, FunctionError |-> FALSE],
    [StatusCode |-> 200, FunctionError |-> TRUE] }

\* activationFailed without the test of FunctionError.
activationFailedByStatusOnly(response) == response.StatusCode # 200

\* response.StatusCode !== 200, or response.FunctionError: release throws.
activationFailed(response) ==
  response.StatusCode # 200 \/ response.FunctionError

\* applyActivation keeping a value that is already set.
applyActivationIfUnset(params, payload) ==
  IF params[payload.parameterName] = <<>>
    THEN [params EXCEPT ![payload.parameterName] = payload.parameterValue]
    ELSE params

\* The activation function on a request it answers with success: the named
\* parameter gets the requested value, whatever it held.
applyActivation(params, payload) ==
  [params EXCEPT ![payload.parameterName] = payload.parameterValue]

\* One InvokeCommand: the function, the payload, the response it got and the
\* operator whose release sent it.
Invocation(env, payload, response, by) ==
  [FunctionName |-> lambdaFunctions[env.serverEnvironment],
   parameterName |-> payload.parameterName,
   parameterValue |-> payload.parameterValue,
   response |-> response,
   by |-> by]

\* sendFailureCaught without the .catch on the send.
sendFailureUncaught == FALSE

\* (async () => { await webhook.send(...) })().catch((err) => console.error(err))
sendFailureCaught == TRUE

\* webhook.send of sendReleaseMessage, for an environment that notifies.
Notified(env, delivered, by) ==
  IF sendsNotification(env)
    THEN Append(notifications,
                [channel |-> env.slackChannel, delivered |-> delivered, by |-> by])
    ELSE notifications

\* release threw: nothing catches it (releaseCmd drops release's promise), so
\* it is an unhandled rejection, which ends the process with status 1 or only
\* warns, depending on the runtime.
Rejected ==
  /\ rpc' = "done"
  /\ output' = Append(output, "UnhandledRejection")
  /\ exitCode' \in {0, 1}

\* sendReleaseMessage: console.log(simpleMessage) is reached whatever becomes
\* of the send, whose failure is logged afterwards.
SendReleaseMessage(failed) ==
  /\ rpc' = "done"
  /\ IF ~failed
       THEN /\ output' = Append(output, "released")
            /\ exitCode' = 0
       ELSE IF sendFailureCaught
         THEN /\ output' = output \o <<"released", "WebhookError">>
              /\ exitCode' = 0
         ELSE /\ output' = output \o <<"released", "UnhandledRejection">>
              /\ exitCode' \in {0, 1}

\* The response of the activation function has arrived.
Responded(env, payload, response, delivered) ==
  /\ invocations' = Append(invocations, Invocation(env, payload, response, "self"))
  /\ IF activationFailed(response)
       THEN /\ Rejected
            /\ UNCHANGED <<ssm, notifications>>
       ELSE /\ ssm' = applyActivation(ssm, payload)
            /\ notifications' = Notified(env, delivered, "self")
            /\ SendReleaseMessage(sendsNotification(env) /\ ~delivered)

\* missingConfiguration with the test of the environment only.
missingServerEnvironment(env, lambdas) == "serverEnvironment" \notin DOMAIN env

\* The two tests at the head of release(): !_.has(environment,
\* "serverEnvironment"), !_.has(lambdaFunctions, environment.serverEnvironment)
missingConfiguration(env, lambdas) ==
  \/ "serverEnvironment" \notin DOMAIN env
  \/ env.serverEnvironment \notin DOMAIN lambdas

\* release(environment, version, lambdaFunctions, packageName, slackConfig)
release(env, v, lambdas) ==
  IF missingConfiguration(env, lambdas)
    THEN /\ Rejected
         /\ UNCHANGED <<ssm, invocations, notifications>>
    ELSE \E response \in Responses, delivered \in BOOLEAN :
           Responded(env, releasePayload(env, v), response, delivered)

\* release() as releaseCmd calls it.
Release ==
  /\ rpc = "release"
  /\ release(environmentsConfig[environment], version[1], lambdaFunctions)
  /\ UNCHANGED <<s3, cmdObj, renvs, environment, versions, version, prompts,
                 answered, cleanVars, auxVars>>

\* A second operator's release() of an artifact to an environment, its
\* confirmation given: the same invocation, from another process.
PeerResponded(env, payload, response, delivered) ==
  /\ invocations' = Append(invocations, Invocation(env, payload, response, "peer"))
  /\ IF activationFailed(response)
       THEN /\ peer' = [peer EXCEPT !.pc = "rejected"]
            /\ UNCHANGED <<ssm, notifications>>
       ELSE /\ ssm' = applyActivation(ssm, payload)
            /\ notifications' = Notified(env, delivered, "peer")
            /\ peer' = [peer EXCEPT !.pc = "released"]

PeerRelease ==
  /\ peer.pc = "release"
  /\ \E response \in Responses, delivered \in BOOLEAN :
       PeerResponded(environmentsConfig[peer.environment],
                     releasePayload(environmentsConfig[peer.environment],
                                    peer.version[1]),
                     response, delivered)
  /\ UNCHANGED <<s3, cmdObj, rpc, renvs, environment, versions, version,
                 prompts, answered, output, exitCode, cleanVars, started,
                 deploy, fn, gurglerJson, lookups>>

releaseCmd ==
  \/ RequestReleased
  \/ DetermineEnvironment
  \/ AnswerEnvironment
  \/ DetermineVersionToRelease
  \/ AnswerVersion
  \/ AnswerConfirm
  \/ AnswerWarning
  \/ Release

----------------------------------------------------------------------------
(* cleanupCmd *)

Day == 60 * 60 * 24

\* now.getTime() - 1000 * 60 * 60 * 24 * 90, in seconds
ninetyDaysAgo(t) == t - 60 * 60 * 24 * 90

\* The time at which delete-old-deploys is invoked.
Clock == 100 * Day

\* getDeployedVersionListWithMetadata: the catalog of a bucket, oldest first.
\* threw: the listing or the enrichment of some artifact threw.
SortFilterEnrich(listed, objs) ==
  Enriched(listed.threw,
           addGitShaAll(filterFilesToFindGurglerDeploys(
                          SortByLastModified(listed.versions)), objs))

getDeployedVersionListWithMetadata(objs, bucketName) ==
  SortFilterEnrich(getDeployedVersionList(objs, bucketName, bucketPath), objs)

\* isOld with the comparison made inclusive.
isOldInclusive(artifact, t) == artifact.lastModified <= ninetyDaysAgo(t)

\* The first filter of cleanupCmd: older than ninety days.
isOld(artifact, t) == artifact.lastModified < ninetyDaysAgo(t)

\* isUnreleased comparing with the first environment only.
isUnreleasedInFirst(artifact, releasedHash) ==
  releasedHash[1] # artifact.hash

\* The second filter of cleanupCmd: not released in any environment.
isUnreleased(artifact, releasedHash) ==
  \A i \in DOMAIN releasedHash : releasedHash[i] # artifact.hash

oldArtifacts(deployedArtifacts, t, releasedHash) ==
  SelectSeq(SelectSeq(deployedArtifacts, LAMBDA a : isOld(a, t)),
            LAMBDA a : isUnreleased(a, releasedHash))

IdleSweep ==
  [pc |-> "idle", artifactsToDelete |-> <<>>, idx |-> 0, reallyDelete |-> "unanswered"]

CleanupStart ==
  /\ cpc = "start"
  /\ now' = Clock
  /\ cpc' = "scanPrompt"
  /\ UNCHANGED <<s3, ssm, relVars, auxVars, scan, cenvs, sweep, deleteCalls>>

\* ScanDefault with default: true.
ScanDefaultYes == TRUE

\* inquirer.prompt(confirmationQuestions): one confirm per server
\* environment, default false; every confirmed one starts its sweep.
ScanDefault == FALSE

AnswerScan ==
  /\ cpc = "scanPrompt"
  /\ \E answers \in [serverEnvironments -> {"yes", "no", "default"}] :
       /\ scan' = answers
       /\ sweep' = [s \in serverEnvironments |->
                      [sweep[s] EXCEPT !.pc =
                         IF Confirmation(answers[s], ScanDefault)
                           THEN "fetch" ELSE "skipped"]]
  /\ cpc' = "sweeping"
  /\ UNCHANGED <<s3, ssm, relVars, auxVars, now, cenvs, deleteCalls>>

\* requestCurrentlyReleasedVersions(environments) of one sweep: it folds the
\* pointers into the environment objects, which all sweeps share.
SweepFetch(s) ==
  /\ sweep[s].pc = "fetch"
  /\ LET r == requestCurrentlyReleasedVersions(ssm)
     IN IF r.threw
          THEN /\ sweep' = [sweep EXCEPT ![s].pc = "crashed"]
               /\ UNCHANGED cenvs
          ELSE /\ cenvs' = r.releasedHash
               /\ sweep' = [sweep EXCEPT ![s].pc = "catalog"]
  /\ UNCHANGED <<s3, ssm, relVars, auxVars, now, cpc, scan, deleteCalls>>

\* The catalog, the two filters and the "Really delete" prompt.
Catalogued(s, c) ==
  IF c.threw
    THEN sweep' = [sweep EXCEPT ![s].pc = "crashed"]
    ELSE sweep' = [sweep EXCEPT
                     ![s].pc = "reallyDelete",
                     ![s].artifactsToDelete = oldArtifacts(c.versions, now, cenvs)]

SweepCatalog(s) ==
  /\ sweep[s].pc = "catalog"
  /\ Catalogued(s, getDeployedVersionListWithMetadata(s3[bucketNames[s]], bucketNames[s]))
  /\ UNCHANGED <<s3, ssm, relVars, auxVars, now, cpc, scan, cenvs, deleteCalls>>

ReallyDeleteDefault == FALSE

AnswerReallyDelete(s) ==
  /\ sweep[s].pc = "reallyDelete"
  /\ \E answer \in {"yes", "no", "default"} :
       sweep' = [sweep EXCEPT
                   ![s].pc = IF ~Confirmation(answer, ReallyDeleteDefault)
                               THEN "declined"
                             ELSE IF sweep[s].artifactsToDelete = <<>>
                               THEN "deleted"
                             ELSE "emptyS3Directory",
                   ![s].idx = 1,
                   ![s].reallyDelete = answer]
  /\ UNCHANGED <<s3, ssm, relVars, auxVars, now, cpc, scan, cenvs, deleteCalls>>

\* if (listedObjects.IsTruncated) await emptyS3Directory(bucket, dir): the
\* recursive call leaves out the client, so s3 is bound to the bucket name
\* and s3.send is not a function: a TypeError.
recursiveCallThrows(firstArgument) == firstArgument # "client"

\* The keys of a listing's Contents.
ContentKeys(listedObjects) ==
  {listedObjects.Contents[i].Key : i \in DOMAIN listedObjects.Contents}

\* What emptyS3Directory does with a listing: it deletes what was listed and,
\* when the listing was truncated, calls itself.
DeleteListed(s, bucketName, listedObjects, keys) ==
  IF listedObjects.Contents = <<>>
    THEN /\ sweep' = [sweep EXCEPT ![s].pc = "crashed"]
         /\ UNCHANGED <<s3, deleteCalls>>
    ELSE /\ s3' = [s3 EXCEPT ![bucketName] = DeleteObjects(@, keys)]
         /\ deleteCalls' = Append(deleteCalls,
              [serverEnvironment |-> s, bucket |-> bucketName, keys |-> keys])
         /\ sweep' = [sweep EXCEPT ![s].pc =
              IF ~listedObjects.IsTruncated THEN "finalDelete"
              ELSE IF recursiveCallThrows("bucket") THEN "crashed"
              ELSE "emptyS3Directory"]

ListedUnder(s, bucketName, listedObjects) ==
  DeleteListed(s, bucketName, listedObjects, ContentKeys(listedObjects))

\* emptyS3Directory(client, bucketName, artifact.directoryPath): one listing
\* under the prefix and the deletion of what it returned.
EmptyS3Directory(s) ==
  /\ sweep[s].pc = "emptyS3Directory"
  /\ ListedUnder(s, bucketNames[s],
                 ListObjectsV2(s3[bucketNames[s]],
                               sweep[s].artifactsToDelete[sweep[s].idx].directoryPath,
                               <<>>, <<>>))
  /\ UNCHANGED <<ssm, relVars, auxVars, now, cpc, scan, cenvs>>

\* The DeleteObjects of artifact.filepath and artifact.directoryPath, then
\* the next artifact.
FinalDelete(s) ==
  /\ sweep[s].pc = "finalDelete"
  /\ LET bucketName == bucketNames[s]
         artifact == sweep[s].artifactsToDelete[sweep[s].idx]
         keys == {artifact.filepath, artifact.directoryPath}
     IN /\ s3' = [s3 EXCEPT ![bucketName] = DeleteObjects(@, keys)]
        /\ deleteCalls' = Append(deleteCalls,
             [serverEnvironment |-> s, bucket |-> bucketName, keys |-> keys])
        /\ sweep' = [sweep EXCEPT
                       ![s].pc = IF sweep[s].idx < Len(sweep[s].artifactsToDelete)
                                   THEN "emptyS3Directory" ELSE "deleted",
                       ![s].idx = sweep[s].idx + 1]
  /\ UNCHANGED <<ssm, relVars, auxVars, now, cpc, scan, cenvs>>

cleanupCmd ==
  \/ CleanupStart
  \/ AnswerScan
  \/ \E s \in serverEnvironments :
       \/ SweepFetch(s)
       \/ SweepCatalog(s)
       \/ AnswerReallyDelete(s)
       \/ EmptyS3Directory(s)
       \/ FinalDelete(s)

----------------------------------------------------------------------------
(* Initial states and specifications *)

TOld == ninetyDaysAgo(Clock) - 1
TEdge == ninetyDaysAgo(Clock)
TNew == Clock - Day

\* An asset of the deprecated layout, directly under bucketPath.
LegacyObject ==
  [Key |-> bucketPath \o <<"/", "x", ".", "j", "s">>, LastModified |-> TOld,
   GitInfo |-> <<>>]

\* Contents the production bucket may have when a command starts.
ProductionStates ==
  { DeployedObjects(BuildA, {FileA, FileB}, TOld, BuildA.raw)
      \cup DeployedObjects(BuildB, {FileA}, TNew, BuildB.raw),
    DeployedObjects(BuildA, {FileA}, TEdge, BuildA.raw)
      \cup DeployedObjects(BuildB, {FileA}, TOld, BuildB.raw),
    DeployedObjects(BuildA, {FileA}, TOld, BuildA.raw)
      \cup DeployedObjects(BuildB, {FileA}, TOld - Day, BuildB.raw),
    DeployedObjects(BuildA, {FileA}, TOld, BuildA.raw)
      \cup DeployedObjects(BuildC, {FileA}, TOld, <<>>),
    DeployedObjects(BuildA, {FileA}, TOld, BuildA.raw)
      \cup UNION {DeployedObjects(Filler(i), {}, TNew - i, Filler(i).raw) :
                    i \in 1..FillerCount},
    {LegacyObject},
    {} }

\* Contents the development bucket may have when a command starts.
DevelopmentStates ==
  { DeployedObjects(BuildB, {FileA}, TOld, BuildB.raw),
    DeployedObjects(BuildA, {FileA}, TNew, BuildA.raw) }

\* Values a release pointer may have when a command starts.
PointerValues == {<<>>, BuildA.hash, BuildB.hash}

\* --commit values: none, too short, a prefix of two revisions, one revision,
\* the first characters of a build hash, an unknown revision.
CommitOptions ==
  { <<>>, Rep("a", 4), Rep("a", 7), CommitB, Rep("d", 7), Rep("b", 8) }

\* --environment values: none, the configured keys, an unknown key.
EnvironmentOptions == {"", "dev", "production", "staging"}

InitWith(prod, dev, pointers, options) ==
  /\ s3 \in {[b \in Buckets |-> IF b = "production-bucket" THEN p ELSE d] :
               p \in prod, d \in dev}
  /\ ssm \in [SsmKeys -> pointers]
  /\ cmdObj \in options
  /\ rpc = "start"
  /\ renvs = [i \in EnvIdx |-> <<>>]
  /\ environment = 0
  /\ versions = <<>>
  /\ version = <<>>
  /\ prompts = <<>>
  /\ answered = <<>>
  /\ output = <<>>
  /\ exitCode = -1
  /\ invocations = <<>>
  /\ notifications = <<>>
  /\ now = 0
  /\ cpc = "start"
  /\ scan = [s \in serverEnvironments |-> "unanswered"]
  /\ cenvs = [i \in EnvIdx |-> <<>>]
  /\ sweep = [s \in serverEnvironments |-> IdleSweep]
  /\ deleteCalls = <<>>

\* join(process.env.PWD, "gurgler.json")
gurglerPath == <<"/", "w", "/">> \o GurglerJson

\* What the configured globs match.
GlobbedFiles == << <<"d", "/">> \o FileA, <<"d", "/">> \o FileB >>

\* for (const bucketName in bucketNames): the buckets in configuration order.
BucketOrder == <<bucketNames["production"], bucketNames["development"]>>

\* The time of a deploy's uploads.
DeployTime == TNew

\* The working directory holds no gurgler.json.
NoFile == <<>>

\* What the deploy command logs or leaves as the reason of a rejection.
LogLine(line, localFilePath, bucketName, key) ==
  [line |-> line, localFilePath |-> localFilePath, bucket |-> bucketName,
   key |-> key]

\* readFile(gurglerPath) rejects: the file does not exist. deployCmd does
\* not catch it, the rejection carries the error of the file system.
ReadFileRejected ==
  [deploy EXCEPT !.pc = "rejected",
                 !.log = @ \cup {LogLine("ENOENT", gurglerPath, "", <<>>)}]

\* const { prefix, raw } = JSON.parse(data), and the local files: the
\* manifest and what the globs match.
ManifestRead(m) ==
  [deploy EXCEPT !.pc = "uploading", !.prefix = m.prefix, !.raw = m.raw,
                 !.localFilePaths = <<gurglerPath>> \o deploy.globbed]

\* deployCmd up to the forEach.
DeployStart ==
  /\ deploy.pc = "start"
  /\ deploy' = IF gurglerJson = NoFile THEN ReadFileRejected
               ELSE ManifestRead(gurglerJson[1])
  /\ UNCHANGED <<s3, ssm, relVars, cleanVars, peer, started, fn, gurglerJson,
                 lookups>>

\* How many turns of its loop over the buckets readFileAndDeploy has taken
\* for a local file.
Uploaded(d, localFilePath) ==
  Cardinality({l \in d.log : l.localFilePath = localFilePath})

\* readFileAndDeploy has returned or was rejected for the local file.
Returned(d, localFilePath) ==
  \/ localFilePath \in d.rejected
  \/ Uploaded(d, localFilePath) = Len(BucketOrder)

\* The deploy is over once every readFileAndDeploy has ended.
Settled(d) ==
  IF \A i \in DOMAIN d.localFilePaths : Returned(d, d.localFilePaths[i])
    THEN [d EXCEPT !.pc = "done"] ELSE d

\* PutObjectCommand: the object replaces the one of the same key.
PutObject(objs, key, t, gitInfo) ==
  {o \in objs : o.Key # key}
    \cup {[Key |-> key, LastModified |-> t, GitInfo |-> gitInfo]}

\* Metadata: { "git-info": gitInfo }, gitInfo being the manifest's commit.
MetadataOfCommit(gitInfo) == Split(gitInfo, <<"|">>)[1]

\* Metadata: { "git-info": gitInfo }
Metadata(gitInfo) == gitInfo

\* The PutObjectCommand of one turn, sent.
Sent(d, localFilePath, bucketName, remoteFilePath) ==
  [d EXCEPT !.sent = @ (+) SetToBag({[localFilePath |-> localFilePath,
                                      bucket |-> bucketName,
                                      key |-> remoteFilePath]})]

\* client.send resolves: the object is in the bucket and the success is
\* logged.
Upload(localFilePath, bucketName, remoteFilePath) ==
  /\ s3' = [s3 EXCEPT ![bucketName] =
              PutObject(@, remoteFilePath, DeployTime, Metadata(deploy.raw))]
  /\ deploy' = Settled(
       [Sent(deploy, localFilePath, bucketName, remoteFilePath) EXCEPT
          !.puts = @ \cup {[localFilePath |-> localFilePath, bucket |-> bucketName,
                            key |-> remoteFilePath]},
          !.log = @ \cup {LogLine("deployed", localFilePath, bucketName,
                                  remoteFilePath)}])

\* client.send rejects: readFileAndDeploy is rejected for this file, its
\* loop over the buckets ends here.
SendRejected(localFilePath, bucketName, remoteFilePath) ==
  [Sent(deploy, localFilePath, bucketName, remoteFilePath) EXCEPT
     !.rejected = @ \cup {localFilePath},
     !.log = @ \cup {LogLine("rejected", localFilePath, bucketName,
                             remoteFilePath)}]

\* Nobody handles the rejection of readFileAndDeploy: the runtime either
\* warns and goes on with the other files, or ends the process.
Unhandled(d) == {Settled(d), [d EXCEPT !.pc = "crashed"]}

FailedUpload(localFilePath, bucketName, remoteFilePath) ==
  /\ deploy' \in Unhandled(SendRejected(localFilePath, bucketName, remoteFilePath))
  /\ UNCHANGED s3

\* One turn of the loop that is not pretended.
Turn(localFilePath, bucketName, remoteFilePath) ==
  IF [localFilePath |-> localFilePath, bucket |-> bucketName] \in deploy.failing
    THEN FailedUpload(localFilePath, bucketName, remoteFilePath)
    ELSE Upload(localFilePath, bucketName, remoteFilePath)

\* if (pretend): the turns of one file follow each other without an await;
\* each logs what it would have uploaded.
Pretend(localFilePath, remoteFilePath) ==
  /\ Uploaded(deploy, localFilePath) = 0
  /\ deploy' = Settled(
       [deploy EXCEPT !.log = @ \cup {LogLine("pretend", localFilePath,
                                              BucketOrder[b], remoteFilePath) :
                                        b \in DOMAIN BucketOrder}])
  /\ UNCHANGED s3

\* pretend never taken.
pretendsNever(d) == FALSE

\* if (pretend)
pretends(d) == d.pretend

\* readFileAndDeploy(bucketNames, prefix, localFilePath, raw, pretend): the
\* uploads of one file go bucket after bucket, those of different files side
\* by side.
ReadFileAndDeploy(i) ==
  /\ deploy.pc = "uploading"
  /\ ~Returned(deploy, deploy.localFilePaths[i])
  /\ IF pretends(deploy)
       THEN Pretend(deploy.localFilePaths[i],
                    RemoteFilePath(deploy.prefix, PathBase(deploy.localFilePaths[i])))
       ELSE Turn(deploy.localFilePaths[i],
                 BucketOrder[Uploaded(deploy, deploy.localFilePaths[i]) + 1],
                 RemoteFilePath(deploy.prefix, PathBase(deploy.localFilePaths[i])))
  /\ UNCHANGED <<ssm, relVars, cleanVars, peer, started, fn, gurglerJson, lookups>>

deployCmd ==
  \/ DeployStart
  \/ \E i \in DOMAIN deploy.localFilePaths : ReadFileAndDeploy(i)

\* bucketPath values of the configuration: the documented form, and one
\* written with a trailing "/".
BucketPathOptions == {bucketPath, bucketPath \o <<"/">>}

\* The (file, bucket) pairs of a deploy of the manifest and the given files.
PairsOf(files) ==
  [localFilePath : {gurglerPath} \cup {files[i] : i \in DOMAIN files},
   bucket : {BucketOrder[b] : b \in DOMAIN BucketOrder}]

\* The (file, bucket) pairs of the deploy.
Pairs == PairsOf(deploy.globbed)

\* A deploy about to start: whether it pretends, the pairs whose upload the
\* object store will reject.
DeployOf(pretend, failing) ==
  [pc |-> "start", prefix |-> <<>>, raw |-> <<>>, localFilePaths |-> <<>>,
   globbed |-> GlobbedFiles,
   pretend |-> pretend, failing |-> failing, puts |-> {}, sent |-> EmptyBag,
   rejected |-> {}, log |-> {}]

\* No second operator, no further invocation, no deploy, no function applied.
IdlePeer == [pc |-> "idle", environment |-> 0, version |-> <<>>]

IdleDeploy == [DeployOf(FALSE, {}) EXCEPT !.pc = "idle"]

\* No lookup of an enrichment is under way.
IdleLookups ==
  [pc |-> "idle", input |-> <<>>, values |-> <<>>, gitShaSettled |-> <<>>,
   gitInfoSettled |-> <<>>, shown |-> <<>>]

IdleFn == [op |-> "none", input |-> <<>>, size |-> 0, result |-> <<>>]

NoneStarted == [release |-> 0, cleanup |-> 0]

AuxIdle ==
  /\ peer = IdlePeer
  /\ started = NoneStarted
  /\ deploy = IdleDeploy
  /\ fn = IdleFn
  /\ gurglerJson = NoFile
  /\ lookups = IdleLookups

\* A release and a sweep running side by side.
Init ==
  InitWith({DeployedObjects(BuildA, {FileA}, TOld, BuildA.raw)
              \cup DeployedObjects(BuildB, {FileA}, TNew, BuildB.raw)},
           {DeployedObjects(BuildB, {FileA}, TOld, BuildB.raw)},
           {BuildA.hash, BuildB.hash},
           [environment : {"", "production"}, commit : {<<>>, CommitA}])
  /\ AuxIdle

Next == releaseCmd \/ cleanupCmd

Spec == Init /\ [][Next]_vars

\* The release command alone.
InitRelease ==
  InitWith(ProductionStates, DevelopmentStates, PointerValues,
           [environment : EnvironmentOptions, commit : CommitOptions])
  /\ AuxIdle

SpecRelease == InitRelease /\ [][releaseCmd]_vars

\* The sweep alone.
InitCleanup ==
  InitWith(ProductionStates, DevelopmentStates, PointerValues,
           [environment : {""}, commit : {<<>>}])
  /\ AuxIdle

SpecCleanup == InitCleanup /\ [][cleanupCmd]_vars

\* Two operators release side by side: the second one has chosen and
\* confirmed an artifact of its environment's bucket.
PeerChoices(buckets) ==
  {[pc |-> "release", environment |-> e, version |-> <<v>>] :
     e \in EnvIdx,
     v \in UNION {{c[i] : i \in DOMAIN c} :
                    c \in {consideredVersions(buckets[b], b).versions : b \in Buckets}}}

PeerStarts ==
  /\ peer \in {c \in PeerChoices(s3) :
                 c.version[1].bucket =
                   bucketNames[environmentsConfig[c.environment].serverEnvironment]}
  /\ started = NoneStarted
  /\ deploy = IdleDeploy
  /\ fn = IdleFn
  /\ gurglerJson = NoFile
  /\ lookups = IdleLookups

InitRace ==
  /\ InitWith({DeployedObjects(BuildA, {FileA}, TOld, BuildA.raw)
                 \cup DeployedObjects(BuildB, {FileA}, TNew, BuildB.raw)
                 \cup {LegacyObject}},
              {DeployedObjects(BuildB, {FileA}, TOld, BuildB.raw)
                 \cup DeployedObjects(BuildA, {FileA}, TNew, BuildA.raw)
                 \cup {LegacyObject}},
              {BuildA.hash, BuildB.hash},
              [environment : {"", "dev", "production"},
               commit : {<<>>, CommitA, CommitB}])
  /\ PeerStarts

SpecRace == InitRace /\ [][releaseCmd \/ PeerRelease]_vars

\* The local build manifest when deploy starts: none, or the one configure
\* wrote for a build under one of the bucketPath values.
LocalManifests ==
  {NoFile}
    \cup {<<configureCmd(path, CommitA, Master)>> : path \in BucketPathOptions}
    \cup {<<configureCmd(path, CommitB, Dev)>> : path \in BucketPathOptions}

\* What the globs may match instead: two files of the same name in two
\* directories, a gurgler.json of a build directory.
GlobOptions ==
  { << <<"d", "/">> \o FileA, <<"e", "/">> \o FileA >>,
    << <<"d", "/">> \o GurglerJson >> }

\* The uploads the object store rejects during a deploy: none, one pair, or
\* the manifest's in the first bucket and an asset's in the second.
FailingOptions ==
  {{}} \cup {{pair} : pair \in PairsOf(GlobbedFiles)}
       \cup {{[localFilePath |-> gurglerPath, bucket |-> BucketOrder[1]],
               [localFilePath |-> GlobbedFiles[1], bucket |-> BucketOrder[2]]}}

\* The deploy command alone, for two builds and the bucketPath values.
InitDeploy ==
  /\ InitWith({{}, DeployedObjects(BuildA, {FileA}, TOld, BuildA.raw)},
              {{}, DeployedObjects(BuildB, {FileA}, TOld, BuildB.raw)},
              {BuildA.hash},
              [environment : {""}, commit : {<<>>}])
  /\ peer = IdlePeer
  /\ started = NoneStarted
  /\ fn = IdleFn
  /\ lookups = IdleLookups
  /\ gurglerJson \in LocalManifests
  /\ deploy \in {DeployOf(pretend, failing) :
                   pretend \in BOOLEAN, failing \in FailingOptions}
                  \cup {[DeployOf(FALSE, {}) EXCEPT !.globbed = files] :
                          files \in GlobOptions}

SpecDeploy == InitDeploy /\ [][deployCmd]_vars

\* How many further invocations of release or delete-old-deploys follow the
\* first one of each.
MaxFurther == 1

\* No invocation of the command is under way.
ReleaseQuiet == rpc \in {"start", "done"}

SweepEnded(s) == sweep[s].pc \in {"skipped", "declined", "deleted", "crashed"}

CleanupQuiet ==
  cpc = "start" \/ (cpc = "sweeping" /\ \A s \in serverEnvironments : SweepEnded(s))

DeployQuiet == deploy.pc \in {"idle", "start", "done", "rejected", "crashed"}

SequentialOptions ==
  { [environment |-> "production", commit |-> CommitA],
    [environment |-> "dev", commit |-> CommitB] }

\* The release command is invoked once more.
ReleaseAgain ==
  /\ rpc = "done"
  /\ started.release + started.cleanup < MaxFurther
  /\ started' = [started EXCEPT !.release = @ + 1]
  /\ cmdObj' \in SequentialOptions
  /\ rpc' = "start"
  /\ renvs' = [i \in EnvIdx |-> <<>>]
  /\ environment' = 0
  /\ versions' = <<>>
  /\ version' = <<>>
  /\ prompts' = <<>>
  /\ answered' = <<>>
  /\ output' = <<>>
  /\ exitCode' = -1
  /\ UNCHANGED <<s3, ssm, invocations, notifications, cleanVars, peer, deploy, fn,
                 gurglerJson, lookups>>

\* delete-old-deploys is invoked once more.
CleanupAgain ==
  /\ cpc = "sweeping"
  /\ \A s \in serverEnvironments : SweepEnded(s)
  /\ started.release + started.cleanup < MaxFurther
  /\ started' = [started EXCEPT !.cleanup = @ + 1]
  /\ now' = 0
  /\ cpc' = "start"
  /\ scan' = [s \in serverEnvironments |-> "unanswered"]
  /\ cenvs' = [i \in EnvIdx |-> <<>>]
  /\ sweep' = [s \in serverEnvironments |-> IdleSweep]
  /\ UNCHANGED <<s3, ssm, relVars, deleteCalls, peer, deploy, fn,
                 gurglerJson, lookups>>

\* deploy, release and delete-old-deploys, one invocation at a time.
OneAtATime ==
  \/ CleanupQuiet /\ DeployQuiet /\ releaseCmd
  \/ ReleaseQuiet /\ DeployQuiet /\ cleanupCmd
  \/ ReleaseQuiet /\ CleanupQuiet /\ deployCmd
  \/ CleanupQuiet /\ DeployQuiet /\ ReleaseAgain
  \/ ReleaseQuiet /\ DeployQuiet /\ CleanupAgain

InitOneAtATime ==
  /\ InitWith({DeployedObjects(BuildA, {FileA}, TOld, BuildA.raw)
                 \cup DeployedObjects(BuildB, {FileA}, TOld - Day, BuildB.raw)},
              {DeployedObjects(BuildB, {FileA}, TOld, BuildB.raw)},
              {BuildA.hash, BuildB.hash},
              SequentialOptions)
  /\ ssm[environmentsConfig[1].ssmKey] = BuildA.hash
  /\ ssm[environmentsConfig[2].ssmKey] = BuildB.hash
  /\ peer = IdlePeer
  /\ started = NoneStarted
  /\ fn = IdleFn
  /\ lookups = IdleLookups
  /\ gurglerJson = <<BuildB>>
  /\ deploy = DeployOf(FALSE, {})

SpecOneAtATime == InitOneAtATime /\ [][OneAtATime]_vars

\* The catalog functions on their own. Objects a bucket may hold: three
\* manifests, assets of two of the builds, an object of the deprecated layout.
ListingPool ==
  DeployedObjects(BuildA, {FileA, FileB}, TOld, BuildA.raw)
    \cup DeployedObjects(BuildB, {FileA}, TNew, BuildB.raw)
    \cup DeployedObjects(BuildC, {}, TNew, BuildC.raw)
    \cup {LegacyObject}

\* Records of getDeployedVersionList; two of them were modified at the same
\* time.
RecordPool ==
  {VersionOfObject(o, "production-bucket") :
     o \in DeployedObjects(BuildA, {}, TOld, BuildA.raw)
             \cup DeployedObjects(BuildB, {}, TNew, BuildB.raw)
             \cup DeployedObjects(BuildC, {}, TNew, BuildC.raw)
             \cup DeployedObjects(Filler(1), {}, TEdge, Filler(1).raw)}

\* How many records the recency sort is given at most.
MaxRecords == 3

\* The lists without repetition of at most MaxRecords records.
RecordLists ==
  UNION {{q \in [1..n -> RecordPool] : \A i, j \in 1..n : q[i] = q[j] => i = j} :
           n \in 0..MaxRecords}

\* The size formatAndLimitDeployedVersions is given: small ones, and the 20
\* of determineVersionToRelease.
SizeOptions == 0..MaxRecords \cup {DisplayLimit}

\* getDeployedVersionList(bucketName, bucketPath) over a bucket's objects.
GetDeployedVersionList ==
  /\ fn.op = "list"
  /\ fn' = [fn EXCEPT !.op = "listed",
                      !.result = getDeployedVersionList(fn.input,
                                                        "production-bucket",
                                                        bucketPath)]
  /\ UNCHANGED <<s3, ssm, relVars, cleanVars, peer, started, deploy,
                 gurglerJson, lookups>>

\* formatAndLimitDeployedVersions(versions, size)
FormatAndLimit ==
  /\ fn.op = "recency"
  /\ fn' = [fn EXCEPT !.op = "sorted",
                      !.result = formatAndLimitDeployedVersions(fn.input, fn.size)]
  /\ UNCHANGED <<s3, ssm, relVars, cleanVars, peer, started, deploy,
                 gurglerJson, lookups>>

catalogFunctions == GetDeployedVersionList \/ FormatAndLimit

InitCatalog ==
  /\ InitWith({{}}, {{}}, {BuildA.hash}, [environment : {""}, commit : {<<>>}])
  /\ peer = IdlePeer
  /\ started = NoneStarted
  /\ deploy = IdleDeploy
  /\ gurglerJson = NoFile
  /\ lookups = IdleLookups
  /\ \/ fn \in {[op |-> "list", input |-> objs, size |-> 0, result |-> <<>>] :
                  objs \in SUBSET ListingPool}
     \/ fn \in {[op |-> "recency", input |-> q, size |-> n, result |-> <<>>] :
                  q \in RecordLists, n \in SizeOptions}

SpecCatalog == InitCatalog /\ [][catalogFunctions]_vars

\* configure and the library's publicPath on their own. The commit and the
\* branch are what the command line gives: a commit id, short strings, and
\* strings that hold the separator of the raw identity.
CommitArguments == {CommitA, <<"a">>, <<"a", "a">>, <<"a", "|", "b">>}
BranchArguments == {Master, <<"b">>, <<"a", "b">>, <<"b", "|", "b">>}

ConfigureArguments ==
  [commit : CommitArguments, branch : BranchArguments, path : BucketPathOptions]

\* The manifest with the asset prefix made of the raw identity.
configureWritesRawPrefix(args) ==
  [configureCmd(args.path, args.commit, args.branch) EXCEPT
     !.prefix = args.path \o <<"/">> \o RawIdentity(args.commit, args.branch)]

\* writeFile(gurglerPath, JSON.stringify({commit, branch, raw, hash, prefix}))
configureWrites(args) == configureCmd(args.path, args.commit, args.branch)

\* gurgler configure <gitCommitSha> <gitBranch>: the next of the invocations
\* (re)writes gurgler.json.
Configure ==
  /\ fn.op = "configure"
  /\ fn.size < Len(fn.input)
  /\ gurglerJson' = <<configureWrites(fn.input[fn.size + 1])>>
  /\ fn' = [fn EXCEPT !.size = @ + 1,
                      !.result = Append(@, configureWrites(fn.input[fn.size + 1]))]
  /\ UNCHANGED <<s3, ssm, relVars, cleanVars, peer, started, deploy, lookups>>

\* JSON.parse(data).publicPath: undefined (<<>>) when the manifest has no
\* such member.
publicPath(file) ==
  IF "publicPath" \in DOMAIN file[1] THEN <<file[1].publicPath>> ELSE <<>>

\* The library's publicPath(), called once configure has run.
PublicPath ==
  /\ fn.op = "configure"
  /\ fn.size = Len(fn.input)
  /\ fn' = [fn EXCEPT !.op = "publicPath", !.result = publicPath(gurglerJson)]
  /\ UNCHANGED <<s3, ssm, relVars, cleanVars, peer, started, deploy, gurglerJson,
                 lookups>>

configureCmds == Configure \/ PublicPath

\* Two invocations of configure, in a directory with or without a manifest
\* of an earlier build.
InitConfigure ==
  /\ InitWith({{}}, {{}}, {BuildA.hash}, [environment : {""}, commit : {<<>>}])
  /\ peer = IdlePeer
  /\ started = NoneStarted
  /\ deploy = IdleDeploy
  /\ lookups = IdleLookups
  /\ gurglerJson \in {NoFile, <<BuildB>>}
  /\ fn \in {[op |-> "configure", input |-> <<first, second>>, size |-> 0,
              result |-> <<>>] :
               first \in ConfigureArguments, second \in ConfigureArguments}

SpecConfigure == InitConfigure /\ [][configureCmds]_vars

\* A build from configure to the catalog: configure writes gurgler.json for
\* the commit and the branch of the command line, deploy uploads it with the
\* assets, and the release command lists the bucket of an environment.
ConfigureEnded == fn.op = "configure" /\ fn.size = Len(fn.input)

DeployOver == deploy.pc \in {"done", "rejected", "crashed"}

configureDeployList ==
  \/ Configure
  \/ ConfigureEnded /\ deployCmd
  \/ DeployOver /\ RequestReleased
  \/ DeployOver /\ DetermineEnvironment
  \/ DeployOver /\ DetermineVersionToRelease

InitRoundTrip ==
  /\ InitWith({{}}, {{}}, {BuildA.hash},
              [environment : {"dev", "production"}, commit : {<<>>}])
  /\ peer = IdlePeer
  /\ started = NoneStarted
  /\ lookups = IdleLookups
  /\ gurglerJson = NoFile
  /\ deploy = DeployOf(FALSE, {})
  /\ fn \in {[op |-> "configure", input |-> <<args>>, size |-> 0,
              result |-> <<>>] :
               args \in {a \in ConfigureArguments : a.path = bucketPath}}

SpecRoundTrip == InitRoundTrip /\ [][configureDeployList]_vars

\* release() on its own, called with an environment, a version and a map of
\* activation functions.
ReleaseCalled ==
  /\ rpc = "release"
  /\ fn.op = "release"
  /\ release(fn.input.environment, fn.input.version, fn.input.lambdaFunctions)
  /\ UNCHANGED <<s3, cmdObj, renvs, environment, versions, version, prompts,
                 answered, cleanVars, auxVars>>

\* The record without one of its members.
Without(r, member) == [f \in DOMAIN r \ {member} |-> r[f]]

\* Environments release() may be given: the configured ones, and the same
\* with no serverEnvironment.
EnvironmentArguments ==
  {environmentsConfig[i] : i \in EnvIdx}
    \cup {Without(environmentsConfig[i], "serverEnvironment") : i \in EnvIdx}

\* lambdaFunctions with none, some or all of the configured functions.
LambdaFunctionsArguments ==
  {[s \in S |-> lambdaFunctions[s]] : S \in SUBSET DOMAIN lambdaFunctions}

\* The catalog of a bucket with two deployed builds.
DeployedVersions ==
  consideredVersions(DeployedObjects(BuildA, {FileA}, TOld, BuildA.raw)
                       \cup DeployedObjects(BuildB, {FileA}, TNew, BuildB.raw),
                     "production-bucket").versions

\* Versions release() may be given: the records of the two builds.
VersionArguments == {DeployedVersions[i] : i \in DOMAIN DeployedVersions}

InitReleaseCalled ==
  /\ s3 = [b \in Buckets |-> {}]
  /\ ssm \in [SsmKeys -> PointerValues]
  /\ cmdObj = [environment |-> "", commit |-> <<>>]
  /\ rpc = "release"
  /\ renvs = [i \in EnvIdx |-> <<>>]
  /\ environment = 0
  /\ versions = <<>>
  /\ version = <<>>
  /\ prompts = <<>>
  /\ answered = <<>>
  /\ output = <<>>
  /\ exitCode = -1
  /\ invocations = <<>>
  /\ notifications = <<>>
  /\ now = 0
  /\ cpc = "start"
  /\ scan = [s \in serverEnvironments |-> "unanswered"]
  /\ cenvs = [i \in EnvIdx |-> <<>>]
  /\ sweep = [s \in serverEnvironments |-> IdleSweep]
  /\ deleteCalls = <<>>
  /\ peer = IdlePeer
  /\ started = NoneStarted
  /\ deploy = IdleDeploy
  /\ gurglerJson = NoFile
  /\ lookups = IdleLookups
  /\ fn \in {[op |-> "release",
              input |-> [environment |-> e, version |-> v, lambdaFunctions |-> l],
              size |-> 0, result |-> <<>>] :
               e \in EnvironmentArguments, v \in VersionArguments,
               l \in LambdaFunctionsArguments}

SpecReleaseCalled == InitReleaseCalled /\ [][ReleaseCalled]_vars

\* The enrichment of determineVersionToRelease, one lookup at a time. The
\* promises of versions.map(...) settle in any order.

\* The catalog is listed and limited; addGitSha is called for every version.
StartLookups ==
  /\ lookups.pc = "start"
  /\ lookups' =
       IF ListAllPages(s3["production-bucket"], bucketPath \o <<"/">>, <<"/">>,
                       <<>>).threw
         THEN [lookups EXCEPT !.pc = "rejected"]
         ELSE [lookups EXCEPT
                 !.pc = "addGitSha",
                 !.input = formatAndLimitDeployedVersions(
                             getDeployedVersionList(s3["production-bucket"],
                                                    "production-bucket",
                                                    bucketPath).versions,
                             DisplayLimit),
                 !.values = <<>>]
  /\ UNCHANGED <<s3, ssm, relVars, cleanVars, peer, started, deploy, fn,
                 gurglerJson>>

\* The lookups that have not settled yet.
Pending(settled) == DOMAIN lookups.input \ {settled[k] : k \in DOMAIN settled}

\* The array Promise.all resolves to, made of the values in the order in
\* which their promises settled.
PromiseAllBySettlement(values, settled) ==
  [k \in DOMAIN settled |-> values[settled[k]]]

\* The array Promise.all resolves to: the value of the i-th promise at i.
PromiseAll(values, settled) == values

\* The HeadObject of one version returns: addGitSha sets its fields. When it
\* was the last one, Promise.all resolves and addGitInfo is called for every
\* version.
SettleGitSha(i) ==
  /\ lookups.pc = "addGitSha"
  /\ i \in Pending(lookups.gitShaSettled)
  /\ lookups' =
       [lookups EXCEPT
          !.gitShaSettled = Append(@, i),
          !.pc = IF Pending(lookups.gitShaSettled) = {i}
                   THEN "addGitInfo" ELSE "addGitSha",
          !.values =
            IF Pending(lookups.gitShaSettled) = {i}
              THEN PromiseAll(
                     [j \in DOMAIN lookups.input |->
                        addGitSha(lookups.input[j], s3["production-bucket"])],
                     Append(lookups.gitShaSettled, i))
              ELSE <<>>]
  /\ UNCHANGED <<s3, ssm, relVars, cleanVars, peer, started, deploy, fn,
                 gurglerJson>>

\* The git commands of one version return: addGitInfo sets displayName, or
\* throws and rejects Promise.all. When it was the last one, Promise.all
\* resolves and the list goes to the prompt.
SettleGitInfo(i) ==
  /\ lookups.pc = "addGitInfo"
  /\ i \in Pending(lookups.gitInfoSettled)
  /\ lookups' =
       IF addGitInfo(lookups.values[i]).threw
         THEN [lookups EXCEPT !.pc = "rejected",
                              !.gitInfoSettled = Append(@, i)]
         ELSE [lookups EXCEPT
                 !.gitInfoSettled = Append(@, i),
                 !.pc = IF Pending(lookups.gitInfoSettled) = {i}
                          THEN "shown" ELSE "addGitInfo",
                 !.shown = IF Pending(lookups.gitInfoSettled) = {i}
                             THEN PromiseAll(lookups.values,
                                             Append(lookups.gitInfoSettled, i))
                             ELSE <<>>]
  /\ UNCHANGED <<s3, ssm, relVars, cleanVars, peer, started, deploy, fn,
                 gurglerJson>>

enrichVersions ==
  \/ StartLookups
  \/ \E i \in DOMAIN lookups.input : SettleGitSha(i) \/ SettleGitInfo(i)

\* Manifests a bucket may hold: four builds, two of them uploaded at the same
\* time, one without git-info tag.
LookupPool ==
  { DeployedObjects(BuildA, {}, TOld, BuildA.raw),
    DeployedObjects(BuildB, {}, TNew, BuildB.raw),
    DeployedObjects(BuildC, {}, TNew, BuildC.raw),
    DeployedObjects(Filler(1), {}, TEdge, Filler(1).raw),
    DeployedObjects(Filler(2), {}, TEdge - Day, <<>>) }

InitLookups ==
  /\ InitWith({UNION some : some \in SUBSET LookupPool}, {{}}, {BuildA.hash},
              [environment : {""}, commit : {<<>>}])
  /\ peer = IdlePeer
  /\ started = NoneStarted
  /\ deploy = IdleDeploy
  /\ fn = IdleFn
  /\ gurglerJson = NoFile
  /\ lookups = [IdleLookups EXCEPT !.pc = "start"]

SpecLookups == InitLookups /\ [][enrichVersions]_vars

----------------------------------------------------------------------------
(* Properties *)

Builds == {BuildA, BuildB, BuildC} \cup {Filler(i) : i \in 1..(FillerCount + 1)}

\* The key of a build's manifest object: basePath/buildHash.gurgler.json
ManifestKey(m) == bucketPath \o <<"/">> \o m.hash \o ManifestSuffix

\* The builds an object belongs to: as the manifest or as an asset.
BuildsOfKey(key) ==
  {m \in Builds : key = ManifestKey(m)
                    \/ StartsWith(key, bucketPath \o <<"/">> \o m.hash \o <<"/">>)}

\* The builds whose manifest object is in a bucket.
CataloguedBuilds(bucketName) ==
  {m \in Builds : \E o \in s3[bucketName] : o.Key = ManifestKey(m)}

ManifestObject(bucketName, m) ==
  CHOOSE o \in s3[bucketName] : o.Key = ManifestKey(m)

Range(f) == {f[i] : i \in DOMAIN f}

Count(seq, x) == Cardinality({i \in DOMAIN seq : seq[i] = x})

\* C1: in every interleaving of a sweep with releases, no object of an
\* artifact is deleted at a moment when some environment's release pointer
\* equals that artifact's buildHash.
C1_ReleasedArtifactNeverDeleted ==
  [][\A b \in Buckets : \A o \in s3[b] \ s3'[b] : \A m \in BuildsOfKey(o.Key) :
       \A k \in SsmKeys : ssm[k] # m.hash]_vars

\* C2: what a sweep proposes for deletion is exactly the catalogued artifacts
\* of its bucket that are strictly older than ninety days before the
\* invocation and whose buildHash no environment's fetched releasedHash equals.
ExpectedCandidates(s) ==
  {m.hash : m \in {x \in CataloguedBuilds(bucketNames[s]) :
     /\ ManifestObject(bucketNames[s], x).LastModified < now - 90 * Day
     /\ \A i \in EnvIdx : cenvs[i] # x.hash}}

Affirmed ==
  /\ Len(answered) >= 1
  /\ answered[1] = "yes"
  /\ Count(prompts, "masterOnlyWarning") = 1 =>
       Len(answered) = 2 /\ answered[2] # "no"

\* C3: the activation and the notification happen only if every confirmation
\* prompt presented was answered affirmatively; declining or accepting the
\* default at the primary confirmation, or declining the master-only warning,
\* gives no activation and no notification.
C3_ActivationOnlyWhenConfirmed ==
  (rpc = "release" \/ invocations # <<>> \/ notifications # <<>>
     \/ "released" \in Range(output))
    => Affirmed

\* The operator confirmed the release and then declined the warning: the
\* command ended without activation.
C3_Witness ==
  /\ rpc = "done"
  /\ answered = <<"yes", "no">>
  /\ invocations = <<>>
  /\ notifications = <<>>

\* C4: DeleteObjects calls on a server class's bucket are issued only after
\* yes to that class's scan confirmation and yes to its "Really delete"
\* confirmation, whatever was answered for the other classes.
C4_DeleteOnlyAfterBothConfirmations ==
  \A i \in DOMAIN deleteCalls :
    \A s \in serverEnvironments :
      bucketNames[s] = deleteCalls[i].bucket =>
        /\ scan[s] = "yes"
        /\ sweep[s].reallyDelete = "yes"

\* One class's bucket has lost objects while the scan of another was refused.
C4_Witness ==
  \E s, t \in serverEnvironments :
    /\ s # t
    /\ scan[t] \in {"no", "default"}
    /\ \E i \in DOMAIN deleteCalls : deleteCalls[i].bucket = bucketNames[s]

\* The branch a build was configured with.
BranchOfHash(h) == (CHOOSE m \in Builds : m.hash = h).branch

\* C5: releasing an artifact that is not of branch master to a masterOnly
\* environment triggers exactly one additional, differently named prompt
\* after the primary confirmation was answered yes; an artifact of branch
\* master, or an environment that is not masterOnly, triggers none.
C5_WarningPrompt ==
  /\ Count(prompts, "masterOnlyWarning") <= 1
  /\ Count(prompts, "confirm") <= 1
  /\ answered = <<>> => Count(prompts, "masterOnlyWarning") = 0
  /\ answered # <<>> =>
       (Count(prompts, "masterOnlyWarning") = 1
          <=> /\ answered[1] = "yes"
              /\ environmentsConfig[environment].masterOnly
              /\ BranchOfHash(version[1].hash) # Master)

\* The warning is pending for a dev-branch build chosen for production.
C5_Witness ==
  /\ rpc = "warningPrompt"
  /\ prompts[Len(prompts)] = "masterOnlyWarning"
  /\ environmentsConfig[environment].key = "production"
  /\ version[1].hash = BuildB.hash

\* C6: after a confirmed sweep has finished, no object under a deletion
\* candidate's directoryPath remains and the candidate's manifest is gone,
\* for any number of objects under the prefix.
C6_CandidatesGone ==
  \A s \in serverEnvironments :
    (sweep[s].reallyDelete = "yes" /\ sweep[s].pc \in {"deleted", "crashed"}) =>
      \A a \in Range(sweep[s].artifactsToDelete) :
        \A o \in s3[bucketNames[s]] :
          /\ ~StartsWith(o.Key, a.directoryPath)
          /\ o.Key # a.filepath

\* C7: a --environment that equals no configured key makes the release
\* command report the error with the valid keys and exit non-zero, without
\* prompt, activation or notification. Stated for the runs in which every
\* environment has a release pointer.
C7_UnknownEnvironmentReported ==
  (/\ rpc = "done"
   /\ cmdObj.environment \notin {"", "dev", "production"}
   /\ \A k \in SsmKeys : ssm[k] # <<>>)
    => /\ exitCode = 1
       /\ output = <<"UnknownEnvironment">>
       /\ prompts = <<>>
       /\ invocations = <<>>
       /\ notifications = <<>>

ShortCommit == cmdObj.commit # <<>> /\ Len(cmdObj.commit) < 7

LongCommit == Len(cmdObj.commit) >= 7

\* C8 as claimed: every --commit shorter than 7 characters ends the release
\* command with IdentifierTooShort and a non-zero exit, without activation.
\* Stated for the runs in which nothing threw.
C8_ShortCommitAlwaysTooShort ==
  (ShortCommit /\ rpc = "done" /\ "TypeError" \notin Range(output))
    => /\ exitCode = 1
       /\ "IdentifierTooShort" \in Range(output)
       /\ invocations = <<>>

\* C8 as amended: a --commit shorter than 7 characters never leads to an
\* artifact choice, a confirmation or an activation, and once the
\* environment's bucket has given a non-empty list of considered artifacts the
\* command ends with IdentifierTooShort and exit status 1.
C8_ShortCommitRejected ==
  ShortCommit =>
    /\ invocations = <<>>
    /\ version = <<>>
    /\ rpc \notin {"versionPrompt", "confirmPrompt", "warningPrompt", "release"}
    /\ (rpc = "done" /\ versions # <<>>) =>
         exitCode = 1 /\ output = <<"IdentifierTooShort">>

\* A four-character --commit was rejected.
C8_Witness ==
  /\ rpc = "done"
  /\ Len(cmdObj.commit) = 4
  /\ versions # <<>>
  /\ output = <<"IdentifierTooShort">>
  /\ exitCode = 1

\* C9 as claimed: with a --commit shorter than 7 characters the command fails
\* with IdentifierTooShort before any prompt was issued, whether or not
\* --environment was supplied.
C9_TooShortBeforeAnyPrompt ==
  (ShortCommit /\ "IdentifierTooShort" \in Range(output)) => prompts = <<>>

\* C9 as amended: with a --commit shorter than 7 characters and --environment
\* supplied no prompt is ever issued; without --environment the environment
\* list is the one prompt issued, and it precedes the failure.
C9_TooShortPrompts ==
  ShortCommit =>
    /\ cmdObj.environment # "" => prompts = <<>>
    /\ cmdObj.environment = "" => prompts \in {<<>>, <<"environment">>}
    /\ (cmdObj.environment = "" /\ "IdentifierTooShort" \in Range(output))
         => prompts = <<"environment">>

\* The command failed with IdentifierTooShort for a supplied environment
\* without having prompted.
C9_Witness ==
  /\ ShortCommit
  /\ cmdObj.environment = "production"
  /\ "IdentifierTooShort" \in Range(output)
  /\ prompts = <<>>

\* The revision id of a git-info tag: what precedes the first "|".
RevisionIdOf(tag) ==
  IF IndexOf(tag, <<"|">>) = 0 THEN tag
  ELSE SubSeq(tag, 1, IndexOf(tag, <<"|">>) - 1)

\* The bucket of the chosen environment.
ChosenBucket == bucketNames[environmentsConfig[environment].serverEnvironment]

\* The catalogued builds whose revision id starts with the --commit.
Matching(builds) ==
  {m \in builds :
     StartsWith(RevisionIdOf(ManifestObject(ChosenBucket, m).GitInfo), cmdObj.commit)}

\* The builds of the twenty most recently modified manifests of a bucket.
MostRecent(bucketName) ==
  {m \in CataloguedBuilds(bucketName) :
     Cardinality({x \in CataloguedBuilds(bucketName) :
                    ManifestObject(bucketName, x).LastModified
                      > ManifestObject(bucketName, m).LastModified}) < 20}

\* C10 as claimed: for a --commit of at least 7 characters an artifact is
\* resolved whenever some published record of the environment's bucket has a
\* revisionId that starts with it. Stated for the runs that reach the
\* resolution with a non-empty list.
C10_ResolvesAnyPublished ==
  (/\ LongCommit
   /\ rpc = "done"
   /\ versions # <<>>
   /\ Matching(CataloguedBuilds(ChosenBucket)) # {})
    => "NoMatchingArtifact" \notin Range(output)

\* C10 as amended: for a --commit of at least 7 characters and a non-empty
\* list of considered artifacts (the twenty most recently modified manifests
\* of the environment's bucket), an artifact is resolved iff the revisionId of
\* some considered record starts with the --commit, and it is such a record;
\* otherwise the command ends with NoMatchingArtifact and exit status 1,
\* without activation.
C10_ResolvesConsidered ==
  (LongCommit /\ versions # <<>>) =>
    IF Matching(MostRecent(ChosenBucket)) # {}
      THEN /\ version # <<>>
           /\ version[1].hash \in {m.hash : m \in Matching(MostRecent(ChosenBucket))}
           /\ "NoMatchingArtifact" \notin Range(output)
      ELSE /\ version = <<>>
           /\ rpc = "done"
           /\ exitCode = 1
           /\ output = <<"NoMatchingArtifact">>
           /\ invocations = <<>>

\* A --commit that is the beginning of a build hash, and of no revision id,
\* was rejected.
C10_Witness ==
  /\ rpc = "done"
  /\ cmdObj.commit = Rep("d", 7)
  /\ output = <<"NoMatchingArtifact">>
  /\ \E m \in CataloguedBuilds(ChosenBucket) : StartsWith(m.hash, cmdObj.commit)

\* The release command went through the listing of the chosen environment's
\* bucket and has ended.
ListedAndEnded == rpc = "done" /\ environment # 0

\* C11: when the bucket of the chosen environment holds no manifest object
\* under the base path, the release command ends as a normal early exit: the
\* guidance message and exit status 0, no error, no artifact or confirmation
\* prompt, no activation.
C11_EmptyCatalogIsNormalExit ==
  (ListedAndEnded /\ CataloguedBuilds(ChosenBucket) = {})
    => /\ output = <<"NoDeployedVersions">>
       /\ exitCode = 0
       /\ \A i \in DOMAIN prompts : prompts[i] = "environment"
       /\ invocations = <<>>

\* The build whose manifest a version record was made of.
BuildOfVersion(v) == CHOOSE m \in Builds : ManifestKey(m) = v.filepath

\* The invocation the release command's own release() sent.
OwnInvocations == SelectSeq(invocations, LAMBDA x : x.by = "self")

\* C12: after release() succeeded, the value requested for the parameter
\* named environment.ssmKey is exactly the buildHash of the chosen artifact
\* (the hash in the name of its manifest, not the revision id), and the
\* parameter holds it whatever it held before.
C12_ActivationWritesBuildHash ==
  "released" \in Range(output) =>
    /\ Len(OwnInvocations) = 1
    /\ OwnInvocations[1].parameterName = environmentsConfig[environment].ssmKey
    /\ OwnInvocations[1].parameterValue = BuildOfVersion(version[1]).hash
    /\ OwnInvocations[1].parameterValue # version[1].gitSha
    /\ ssm[environmentsConfig[environment].ssmKey] = BuildOfVersion(version[1]).hash

\* A release succeeded for an artifact the environment's pointer already
\* named when the command fetched it, and for another one.
C12_Witness ==
  /\ "released" \in Range(output)
  /\ renvs[environment] # version[1].hash
  /\ ssm[environmentsConfig[environment].ssmKey] = version[1].hash
  /\ version[1].hash = BuildB.hash

\* C13: when the activation answers with a status other than 200 or with a
\* function error, release() ends in an error and neither the success line
\* nor the chat notification is emitted; the success line is emitted only
\* after a successful response.
C13_FailedActivationIsNoSuccess ==
  /\ \A i \in DOMAIN invocations :
       (invocations[i].response.StatusCode # 200
          \/ invocations[i].response.FunctionError)
         => /\ "released" \notin Range(output)
            /\ notifications = <<>>
            /\ "UnhandledRejection" \in Range(output)
  /\ "released" \in Range(output) =>
       /\ invocations # <<>>
       /\ invocations[1].response = [StatusCode |-> 200, FunctionError |-> FALSE]

\* The activation function reported a function error with status 200, for an
\* environment that notifies.
C13_Witness ==
  /\ rpc = "done"
  /\ invocations # <<>>
  /\ invocations[1].response = [StatusCode |-> 200, FunctionError |-> TRUE]
  /\ environmentsConfig[environment].slackChannel # ""
  /\ "UnhandledRejection" \in Range(output)

\* C14: when sending the chat notification fails after a successful
\* activation, the release still ends as a success: the failure is logged,
\* the plain-text line is emitted, the pointer keeps the written value.
C14_NotificationFailureSwallowed ==
  (\E i \in DOMAIN notifications : ~notifications[i].delivered)
    => /\ rpc = "done"
       /\ exitCode = 0
       /\ "released" \in Range(output)
       /\ "WebhookError" \in Range(output)
       /\ "UnhandledRejection" \notin Range(output)
       /\ ssm[environmentsConfig[environment].ssmKey] = version[1].hash

\* The notification of a release to production was not delivered.
C14_Witness ==
  /\ notifications # <<>>
  /\ ~notifications[1].delivered
  /\ output[Len(output)] = "WebhookError"
  /\ exitCode = 0

\* The successful activations of an environment's parameter, in the order in
\* which they were applied.
Applied(key) ==
  SelectSeq(invocations,
            LAMBDA x : /\ x.parameterName = key
                       /\ x.response = [StatusCode |-> 200, FunctionError |-> FALSE])

\* C15: when two release invocations target the same environment at the same
\* time, both activations complete and the pointer ends with the buildHash of
\* the activation applied last: nothing keeps the earlier write.
C15_LastWriteWins ==
  \A i \in EnvIdx :
    LET key == environmentsConfig[i].ssmKey
    IN /\ Applied(key) # <<>> =>
            ssm[key] = Applied(key)[Len(Applied(key))].parameterValue
       /\ ("released" \in Range(output) /\ environment = i
             /\ peer.pc = "released" /\ peer.environment = i)
            => Len(Applied(key)) = 2

\* Both operators released to production, different artifacts; the one
\* applied first is no longer the pointer's value.
C15_Witness ==
  /\ "released" \in Range(output)
  /\ peer.pc = "released"
  /\ environment = peer.environment
  /\ Len(invocations) = 2
  /\ invocations[1].parameterValue # invocations[2].parameterValue
  /\ invocations[1].by = "peer"
  /\ ssm[invocations[1].parameterName] = invocations[2].parameterValue

\* C20: for a build with storage prefix P, deploy stores the manifest at the
\* sibling key P.gurgler.json, which no listing under P/ returns, and every
\* other local file at a key that starts with P/.
C20_KeyLayout ==
  \A p \in deploy.puts :
    IF p.localFilePath = gurglerPath
      THEN /\ p.key = deploy.prefix \o ManifestSuffix
           /\ p.key \notin ListEntries(s3[p.bucket], deploy.prefix \o <<"/">>,
                                       <<>>, <<>>)
      ELSE StartsWith(p.key, deploy.prefix \o <<"/">>)

\* The bucket of an environment's server class.
BucketOfEnv(i) == bucketNames[environmentsConfig[i].serverEnvironment]

\* C16: with deploy, release and delete-old-deploys invoked one at a time,
\* every release pointer that a release has set names a buildHash whose
\* manifest object is in the bucket of the environment's server class.
C16_ReleasedManifestExists ==
  \A i \in EnvIdx :
    Applied(environmentsConfig[i].ssmKey) # <<>> =>
      \E o \in s3[BucketOfEnv(i)] :
        o.Key = bucketPath \o <<"/">> \o ssm[environmentsConfig[i].ssmKey]
                  \o ManifestSuffix

\* Build A, older than ninety days, was released to production; a sweep
\* after that deleted build B from the production bucket and left A.
C16_Witness ==
  /\ Applied(environmentsConfig[2].ssmKey) # <<>>
  /\ ssm[environmentsConfig[2].ssmKey] = BuildA.hash
  /\ sweep["production"].pc = "deleted"
  /\ cenvs[2] = BuildA.hash
  /\ BuildB \notin CataloguedBuilds("production-bucket")
  /\ BuildA \in CataloguedBuilds("production-bucket")
  /\ ManifestObject("production-bucket", BuildA).LastModified < now - 90 * Day

\* A key directly under the base path that ends with .gurgler.json.
NamedAsManifest(key) ==
  /\ StartsWith(key, bucketPath \o <<"/">>)
  /\ IndexOf(SubSeq(key, Len(bucketPath) + 2, Len(key)), <<"/">>) = 0
  /\ Len(key) > Len(bucketPath) + 1 + Len(ManifestSuffix)
  /\ SubSeq(key, Len(key) - Len(ManifestSuffix) + 1, Len(key)) = ManifestSuffix

\* What a list of records names, and whether it names nothing twice.
FilePaths(vs) == {vs[i].filepath : i \in DOMAIN vs}

\* C17: getDeployedVersionList returns exactly the objects of the listing
\* that are named <hash>.gurgler.json, each once and no asset, however the
\* listing falls into pages.
C17_ListsExactlyManifests ==
  fn.op = "listed" =>
    /\ ~fn.result.threw
    /\ FilePaths(fn.result.versions)
         = {o.Key : o \in {x \in fn.input : NamedAsManifest(x.Key)}}
    /\ Len(fn.result.versions) = Cardinality(FilePaths(fn.result.versions))

\* How many records of a list are later than a record.
LaterThan(vs, v) ==
  Cardinality({j \in DOMAIN vs : vs[j].lastModified > v.lastModified})

DistinctLastModified(vs) ==
  \A i, j \in DOMAIN vs : vs[i].lastModified = vs[j].lastModified => i = j

\* C18: for records with pairwise distinct lastModified,
\* formatAndLimitDeployedVersions(records, n) returns min(n, number of
\* records) of them, hence at most that many, in strictly descending
\* lastModified order, and they are the beginning of the full descending
\* order: the i-th one has exactly i - 1 later records.
C18_RecencyOrderAndLimit ==
  (fn.op = "sorted" /\ DistinctLastModified(fn.input)) =>
    /\ Len(fn.result) = IF fn.size < Len(fn.input) THEN fn.size ELSE Len(fn.input)
    /\ \A i \in DOMAIN fn.result :
         /\ fn.result[i].filepath \in FilePaths(fn.input)
         /\ LaterThan(fn.input, fn.result[i]) = i - 1
    /\ \A i \in DOMAIN fn.result : \A j \in DOMAIN fn.result :
         i < j => fn.result[i].lastModified > fn.result[j].lastModified

\* Three records given oldest first were cut to the two latest.
C18_Witness ==
  /\ fn.op = "sorted"
  /\ Len(fn.input) = 3
  /\ DistinctLastModified(fn.input)
  /\ fn.input[1].lastModified < fn.input[2].lastModified
  /\ fn.input[2].lastModified < fn.input[3].lastModified
  /\ fn.size = 2
  /\ Len(fn.result) = 2
  /\ fn.result[1].filepath = fn.input[3].filepath

\* The lists that hold the records of a list in another order.
Reorderings(vs) ==
  {[i \in DOMAIN vs |-> vs[f[i]]] :
     f \in {g \in [DOMAIN vs -> DOMAIN vs] :
              \A i, j \in DOMAIN vs : g[i] = g[j] => i = j}}

\* The file paths of a list, in its order.
FilePathList(vs) == [i \in DOMAIN vs |-> vs[i].filepath]

PutsOfPair(localFilePath, bucketName) ==
  {c \in BagToSet(deploy.sent) :
     c.localFilePath = localFilePath /\ c.bucket = bucketName}

\* The deploy has ended: every readFileAndDeploy returned or was rejected,
\* or the process was ended.
DeployEnded == deploy.pc \in {"done", "crashed"}

\* C21: if the upload of one (file, bucket) pair fails during a deploy, the
\* uploads of all other pairs of that deploy are still attempted, and the
\* failure is reported for that pair only.
C21_OtherPairsStillAttempted ==
  DeployEnded /\ ~deploy.pretend =>
    /\ \A pair \in Pairs : PutsOfPair(pair.localFilePath, pair.bucket) # {}
    /\ \A l \in deploy.log :
         l.line = "rejected" =>
           [localFilePath |-> l.localFilePath, bucket |-> l.bucket]
             \in deploy.failing

\* C22: in a deploy that is not a dry run and in which no upload fails, for
\* every local file (the manifest included) and every configured bucket
\* exactly one put is issued, and every uploaded object carries the metadata
\* tag git-info equal to the manifest's raw identity commitId|branchName.
C22_EveryPairPutOnceWithGitInfo ==
  DeployEnded /\ ~deploy.pretend /\ deploy.rejected = {} =>
    \A pair \in Pairs :
      /\ Cardinality(PutsOfPair(pair.localFilePath, pair.bucket)) = 1
      /\ \A c \in PutsOfPair(pair.localFilePath, pair.bucket) :
           /\ CopiesIn(c, deploy.sent) = 1
           /\ \E o \in s3[pair.bucket] :
                /\ o.Key = c.key
                /\ o.GitInfo = RawIdentity(gurglerJson[1].commit,
                                           gurglerJson[1].branch)

\* A deploy that did not pretend has ended without a failed upload.
C22_Witness ==
  /\ deploy.pc = "done"
  /\ ~deploy.pretend
  /\ deploy.rejected = {}
  /\ BagCardinality(deploy.sent) = Cardinality(Pairs)

\* What a dry run reports for a (file, bucket) pair.
PretendLine(pair) ==
  LogLine("pretend", pair.localFilePath, pair.bucket,
          RemoteFilePath(deploy.prefix, PathBase(pair.localFilePath)))

\* C23: with dry-run (pretend) enabled, deploy issues no put-object call to
\* any bucket for any file, and reports for each (file, bucket) pair the key
\* that would have been written.
C23_DryRunPutsNothing ==
  deploy.pretend =>
    /\ deploy.sent = EmptyBag
    /\ deploy.puts = {}
    /\ deploy.pc = "done" => \A pair \in Pairs : PretendLine(pair) \in deploy.log

\* A dry run has ended, the bucket of production as it was found.
C23_Witness ==
  /\ deploy.pretend
  /\ deploy.pc = "done"
  /\ \E pair \in Pairs : PretendLine(pair) \in deploy.log
  /\ s3["production-bucket"] = {}

\* C28: when deploy runs and the local build manifest is missing, no upload
\* is issued to any bucket and the outcome is a usage-order error that tells
\* the operator to run configure first, not a generic I/O failure.
C28_MissingManifestIsUsageError ==
  deploy.pc = "rejected" =>
    /\ deploy.sent = EmptyBag
    /\ \E l \in deploy.log : l.line = "RunConfigureFirst"
    /\ \A l \in deploy.log : l.line # "ENOENT"

\* The invocations of configure that have run.
Configured == IF fn.op = "configure" THEN 1..fn.size ELSE {}

\* The commit id holds no "|".
PlainCommit(args) == \A i \in DOMAIN args.commit : args.commit[i] # "|"

SamePair(a, b) == a.commit = b.commit /\ a.branch = b.branch

\* C24 as stated: buildHash is a pure function of (commitId, branchName), the
\* same pair gives the same value, and any two different pairs give different
\* values (the digest being collision-free on distinct strings).
C24_BuildHashInjective ==
  \A i, j \in Configured :
    SamePair(fn.input[i], fn.input[j]) <=> fn.result[i].hash = fn.result[j].hash

\* C24, amended: the same pair gives the same buildHash, and two different
\* pairs whose commit ids hold no "|" give different values.
C24_BuildHashInjectiveOnPlainCommits ==
  \A i, j \in Configured :
    /\ SamePair(fn.input[i], fn.input[j])
         => fn.result[i].hash = fn.result[j].hash
    /\ PlainCommit(fn.input[i]) /\ PlainCommit(fn.input[j])
         /\ ~SamePair(fn.input[i], fn.input[j])
         => fn.result[i].hash # fn.result[j].hash

\* Two different pairs of plain commit ids were configured, one after the
\* other, the branch of one holding a "|".
C24_Witness ==
  /\ fn.op = "configure"
  /\ fn.size = 2
  /\ PlainCommit(fn.input[1]) /\ PlainCommit(fn.input[2])
  /\ fn.input[1].commit # fn.input[2].commit
  /\ fn.input[1].branch = <<"b", "|", "b">>
  /\ fn.result[1].hash # fn.result[2].hash

\* C25: configure(commitId, branchName) with base path B writes a manifest
\* whose raw identity is commitId + "|" + branchName, whose hash is the digest
\* of that raw identity and whose prefix is B + "/" + hash; the manifest
\* written depends on nothing but (commitId, branchName, B).
C25_ManifestOfConfigure ==
  /\ \A i \in Configured :
       /\ fn.result[i].raw = fn.input[i].commit \o <<"|">> \o fn.input[i].branch
       /\ fn.result[i].hash = Sha256Hex(fn.result[i].raw)
       /\ fn.result[i].prefix = fn.input[i].path \o <<"/">> \o fn.result[i].hash
       /\ \A j \in Configured : fn.input[i] = fn.input[j] => fn.result[i] = fn.result[j]
  /\ Configured # {} => gurglerJson = <<fn.result[fn.size]>>

\* configure has run twice with the same arguments, the first time on a
\* directory that held the manifest of another build.
C25_Witness ==
  /\ fn.op = "configure"
  /\ fn.size = 2
  /\ fn.input[1] = fn.input[2]
  /\ fn.input[1].commit = CommitA
  /\ gurglerJson = <<fn.result[2]>>
  /\ gurglerJson # <<BuildB>>

\* C29: after configure has written the local build manifest, publicPath()
\* returns the public path under which that build's assets will be deployed,
\* a defined value derived from the manifest.
C29_PublicPathDefined ==
  fn.op = "publicPath" =>
    /\ fn.result # <<>>
    /\ \E i \in DOMAIN fn.result : StartsWith(fn.result[i], gurglerJson[1].prefix)

\* The release command is past the catalog of the chosen environment.
PastCatalog ==
  /\ environment # 0
  /\ rpc \notin {"start", "determineEnvironment", "environmentPrompt",
                 "determineVersionToRelease"}

\* What getDeployedVersionList returns for the bucket of an environment.
ListedFor(i) == getDeployedVersionList(s3[BucketOfEnv(i)], BucketOfEnv(i), bucketPath)

\* The considered artifacts of the bucket of an environment.
ConsideredFor(i) == consideredVersions(s3[BucketOfEnv(i)], BucketOfEnv(i)).versions

\* C26: enriching a catalogued artifact never raises when its revision
\* metadata cannot be obtained, whether the revision is unknown to revision
\* control or the manifest object carries no git-info tag: the artifact still
\* gets a display label and the release flow continues with the full list.
C26_EnrichmentNeverRaises ==
  PastCatalog /\ ~ListedFor(environment).threw =>
    /\ versions = ConsideredFor(environment)
    /\ \A i \in DOMAIN versions : ~addGitInfo(versions[i]).threw
    /\ output # <<>> => output[Len(output)] # "TypeError"

\* The sweeps that have fetched the pointers and have not ended.
SweepsUnderWay ==
  {s \in serverEnvironments :
     sweep[s].pc \in {"catalog", "reallyDelete", "emptyS3Directory", "finalDelete"}}

\* The sweeps whose final confirmation prompt waits for its answer.
PromptsPending == {s \in serverEnvironments : sweep[s].pc = "reallyDelete"}

\* C30: within one delete-old-deploys invocation the sweeps of the server
\* classes form one sequential flow: the sweep of one confirmed server class
\* (pointer fetch, catalog fetch, final confirmation prompt, deletions)
\* completes before the sweep of the next one starts, so at most one
\* confirmation prompt is pending at any time.
C30_SweepsOneAfterTheOther ==
  /\ Cardinality(SweepsUnderWay) <= 1
  /\ Cardinality(PromptsPending) <= 1

\* The indices of a list, each once.
EachOnce(settled, list) ==
  /\ Len(settled) = Len(list)
  /\ {settled[k] : k \in DOMAIN settled} = DOMAIN list

\* C27: when the enrichment lookups of the artifacts are issued side by side,
\* the list presented to the operator is produced only after all lookups have
\* finished, and its order is the recency order of the records, the same for
\* every order in which the lookups complete.
C27_ListAfterAllLookupsInRecencyOrder ==
  lookups.pc = "shown" =>
    /\ EachOnce(lookups.gitShaSettled, lookups.input)
    /\ EachOnce(lookups.gitInfoSettled, lookups.input)
    /\ Len(lookups.shown) = Len(lookups.input)
    /\ \A i \in DOMAIN lookups.shown :
         /\ lookups.shown[i].filepath = lookups.input[i].filepath
         /\ lookups.shown[i].hasGitSha
         /\ \A j \in DOMAIN lookups.shown :
              i < j => lookups.shown[i].lastModified >= lookups.shown[j].lastModified

\* Three artifacts were shown; the lookups of the oldest one settled first,
\* both times.
C27_Witness ==
  /\ lookups.pc = "shown"
  /\ Len(lookups.shown) = 3
  /\ lookups.gitShaSettled[1] = 3
  /\ lookups.gitInfoSettled[1] = 3
  /\ lookups.shown[1].lastModified > lookups.shown[3].lastModified

\* The deploy has put the local file in the bucket.
PutIn(localFilePath, bucketName) ==
  \E p \in deploy.puts : p.localFilePath = localFilePath /\ p.bucket = bucketName

\* C31: at every moment during a deploy, if the manifest object of the build
\* is present in a bucket then every asset object of that build is already
\* present in that bucket: the manifest becomes visible last.
C31_ManifestVisibleLast ==
  \A b \in Buckets :
    PutIn(gurglerPath, b) =>
      \A i \in DOMAIN deploy.globbed : PutIn(deploy.globbed[i], b)

\* C34: within one deploy, two distinct local files never map to the same
\* remote key in a bucket: no file overwrites another, no asset overwrites
\* the manifest, files that share a base name in different directories
\* included.
C34_DistinctFilesDistinctKeys ==
  \A p, q \in deploy.puts :
    p.bucket = q.bucket /\ p.localFilePath # q.localFilePath => p.key # q.key

\* The parameter store holds no parameter for some configured environment.
NeverReleased == {i \in EnvIdx : ssm[environmentsConfig[i].ssmKey] = <<>>}

\* C32: if requestCurrentlyReleasedVersions receives no parameter for some
\* configured environment (one that was never released), it completes
\* without error, so that a first release to that environment can proceed.
C32_NeverReleasedEnvironmentHandled ==
  NeverReleased # {} /\ rpc # "start" =>
    /\ output # <<"TypeError">>
    /\ rpc # "done" \/ environment # 0 \/ cmdObj.environment = "staging"

\* C33: at the master-only warning prompt the default answer is no: an
\* operator who accepts the default there triggers no activation.
C33_WarningDefaultIsNo ==
  (Len(answered) = 2 /\ answered[2] = "default"
     /\ Count(prompts, "masterOnlyWarning") = 1) =>
    /\ rpc # "release"
    /\ invocations = <<>>
    /\ notifications = <<>>

\* The hashes of the artifacts the sweep of server environment s proposed
\* for deletion.
CandidateHashes(s) == {a.hash : a \in Range(sweep[s].artifactsToDelete)}

\* C35: a sweep deletes only objects that belong to its deletion candidates:
\* the manifest and every key under the directoryPath of an artifact that is
\* not a candidate, and every object of no artifact, stay in the bucket.
C35_OnlyCandidatesDeleted ==
  [][\A s \in serverEnvironments :
       \A o \in s3[bucketNames[s]] \ s3'[bucketNames[s]] :
         /\ BuildsOfKey(o.Key) # {}
         /\ \A m \in BuildsOfKey(o.Key) : m.hash \in CandidateHashes(s)]_vars

\* A confirmed sweep has deleted its candidates and the bucket still holds
\* every object of an artifact that was not one.
C35_Witness ==
  \E s \in serverEnvironments :
    /\ sweep[s].pc = "deleted"
    /\ sweep[s].artifactsToDelete # <<>>
    /\ \A a \in Range(sweep[s].artifactsToDelete) :
         \A o \in s3[bucketNames[s]] : ~StartsWith(o.Key, a.directoryPath)
    /\ \E m \in CataloguedBuilds(bucketNames[s]) :
         /\ m.hash \notin CandidateHashes(s)
         /\ \E o \in s3[bucketNames[s]] :
              StartsWith(o.Key, bucketPath \o <<"/">> \o m.hash \o <<"/">>)

\* The manifest objects of a bucket modified after time t.
LaterManifests(bucketName, t) ==
  {o \in s3[bucketName] : IsGurglerManifest(o.Key) /\ o.LastModified > t}

\* The record is that of a manifest object of the chosen environment's
\* bucket, and fewer than twenty manifests there are more recent.
AmongMostRecent(v) ==
  /\ \E o \in s3[ChosenBucket] :
       o.Key = v.filepath /\ o.LastModified = v.lastModified
  /\ Cardinality(LaterManifests(ChosenBucket, v.lastModified)) < DisplayLimit

\* C36: the release command considers only the 20 most recently modified
\* manifests of the environment's bucket: the list offered interactively
\* holds at most 20 records, all among them, and the artifact selected, from
\* the list or through --commit, is one of them.
C36_OnlyMostRecentConsidered ==
  environment # 0 =>
    /\ Len(versions) <= DisplayLimit
    /\ \A i \in DOMAIN versions : AmongMostRecent(versions[i])
    /\ version # <<>> => AmongMostRecent(version[1])

\* The bucket holds a 21st manifest whose revisionId starts with the
\* --commit: twenty records were considered and none matched.
C36_Witness ==
  /\ environment # 0
  /\ rpc = "done"
  /\ LongCommit
  /\ Len(versions) = DisplayLimit
  /\ output = <<"NoMatchingArtifact">>
  /\ Matching(CataloguedBuilds(ChosenBucket) \ MostRecent(ChosenBucket)) # {}

\* The considered records whose revisionId starts with the --commit.
ConsideredMatches ==
  {i \in DOMAIN versions : StartsWith(versions[i].gitSha, cmdObj.commit)}

\* C37: when several considered records have a revisionId that starts with
\* the --commit, the one selected for release has the greatest lastModified
\* of them.
C37_MostRecentMatchSelected ==
  (LongCommit /\ version # <<>>) =>
    /\ \E i \in ConsideredMatches : versions[i] = version[1]
    /\ \A i \in ConsideredMatches :
         versions[i].lastModified <= version[1].lastModified

\* Two considered records of different age start with the --commit: the
\* later one was selected.
C37_Witness ==
  /\ LongCommit
  /\ version # <<>>
  /\ \E i \in ConsideredMatches :
       versions[i].lastModified < version[1].lastModified

\* The release command has listed the bucket after the deploy of the build
\* configure described.
ListedAfterDeploy == ConfigureEnded /\ deploy.pc = "done" /\ rpc = "versionPrompt"

\* The record of the catalog has the commit and the branch given to
\* configure, and the build hash of the manifest.
SameIdentity(v, m) ==
  /\ v.hash = m.hash
  /\ v.hasGitSha /\ v.gitSha = m.commit
  /\ v.hasGitBranch /\ v.gitBranch = m.branch

\* C38: for every commit and branch given to configure, after deploy the
\* catalog's record of the manifest object has revisionId = commit and
\* branchName = branch from the git-info tag, and the hash parsed from the
\* manifest's file name is the manifest's build hash.
C38_BuildIdentityRoundTrip ==
  ListedAfterDeploy =>
    /\ Len(versions) = 1
    /\ SameIdentity(versions[1], gurglerJson[1])

\* The string holds no "|".
NoSeparator(str) == \A i \in DOMAIN str : str[i] # "|"

\* The round trip for commits and branches without "|".
RoundTripWithoutSeparator ==
  (ListedAfterDeploy /\ NoSeparator(gurglerJson[1].commit)
     /\ NoSeparator(gurglerJson[1].branch)) =>
    /\ Len(versions) = 1
    /\ SameIdentity(versions[1], gurglerJson[1])

\* release() was called with an environment that has no server environment.
NoServerEnvironment ==
  fn.op = "release" /\ "serverEnvironment" \notin DOMAIN fn.input.environment

\* release() was called for a server environment that has no activation
\* function.
NoLambdaFunction ==
  /\ fn.op = "release"
  /\ ~NoServerEnvironment
  /\ fn.input.environment.serverEnvironment \notin DOMAIN fn.input.lambdaFunctions

\* C39: release() tests its configuration before any external call: when the
\* environment has no server environment, or no activation function is
\* configured for its server environment, release() ends in an error with
\* no invocation of an activation function, no notification and no pointer
\* changed.
C39_PreconditionsBeforeExternalCalls ==
  (rpc = "done" /\ (NoServerEnvironment \/ NoLambdaFunction)) =>
    /\ invocations = <<>>
    /\ notifications = <<>>
    /\ output = <<"UnhandledRejection">>

\* release() has thrown for the production environment because
\* lambdaFunctions names a function for development only.
C39_Witness ==
  /\ rpc = "done"
  /\ NoLambdaFunction
  /\ fn.input.environment.serverEnvironment = "production"
  /\ DOMAIN fn.input.lambdaFunctions = {"development"}
  /\ output = <<"UnhandledRejection">>
  /\ invocations = <<>>


====
